---- MODULE Spec2Model ----
(***************************************************************************)
(* Fault-tolerant concurrent in-memory key-value store.                    *)
(*                                                                         *)
(* The model follows the source: KVServer (kv_server.hpp) composes a       *)
(* ConcurrentHashMap (concurrent_hash_map.hpp) with a WriteAheadLog        *)
(* (write_ahead_log.hpp).  The log file is modelled at the level of bytes, *)
(* the std::fstream of the log at the level of its iostate bits and of the *)
(* bytes its filebuf still holds, and the machine at the level of what the *)
(* operating system holds of the file and what has reached stable storage. *)
(***************************************************************************)
EXTENDS Integers, Sequences, FiniteSets, TLC

(***************************************************************************)
(* Bounds of the model.                                                    *)
(***************************************************************************)
\* client operations started over one behaviour
MaxOps == 3
\* process terminations (shutdown, kill, power loss, failed construction)
MaxRestarts == 1
\* largest indeterminate length an uninitialised size_t is taken to hold
MaxGarbageLen == 1
\* buckets of the map (Config::num_segments, scaled down)
NumBuckets == 2
\* Config::max_key_size and Config::max_value_size, scaled down
max_key_size == 2
max_value_size == 2

\* connection-handler threads
Clients == {1, 2}
\* the thread that runs main() and constructs the server
Main == 3
Threads == Clients \cup {Main}
\* keys and values clients send ("a", "b"; "1", "2")
Keys == {<<97>>, <<98>>}
Values == {<<49>>, <<50>>}
\* the clock readings std::chrono::system_clock::now() gives, in ms, as 8 bytes
Timestamps == {<<239, 186, 128, 169, 161, 1, 0, 0>>}

(***************************************************************************)
(* Bytes and 64-bit little-endian words.                                   *)
(***************************************************************************)
Byte == 0..255

\* sizeof(uint64_t) and sizeof(size_t) on an LP64 build
WordSize == 8

Zeros(n) == [i \in 1..n |-> 0]

RECURSIVE LE(_, _)
\* the n low bytes of x, least significant first
LE(x, n) == IF n = 0 THEN <<>> ELSE <<x % 256>> \o LE(x \div 256, n - 1)

U64Of(x) == LE(x, WordSize)

RECURSIVE U64Less(_, _, _)
\* a < b as unsigned 64-bit numbers, comparing from byte i downwards
U64Less(a, b, i) ==
    IF i = 0 THEN FALSE
    ELSE IF a[i] # b[i] THEN a[i] < b[i]
    ELSE U64Less(a, b, i - 1)

U64Geq(a, b) == ~U64Less(a, b, WordSize)

RECURSIVE U64IncFrom(_, _)
\* a + 1 modulo 2^64, the carry entering at byte i
U64IncFrom(a, i) ==
    IF i > WordSize THEN a
    ELSE IF a[i] = 255 THEN U64IncFrom([a EXCEPT ![i] = 0], i + 1)
    ELSE [a EXCEPT ![i] = a[i] + 1]

U64Inc(a) == U64IncFrom(a, 1)

RECURSIVE U64DecFrom(_, _)
\* a - 1 modulo 2^64, the borrow entering at byte i
U64DecFrom(a, i) ==
    IF i > WordSize THEN a
    ELSE IF a[i] = 0 THEN U64DecFrom([a EXCEPT ![i] = 255], i + 1)
    ELSE [a EXCEPT ![i] = a[i] - 1]

U64Dec(a) == U64DecFrom(a, 1)

\* an allocation std::string(n, '\0') above this many bytes throws
AllocLimit == 128

\* the value of a size_t whose m low bytes are b (m <= 8) and whose other bytes
\* hold hi (0: they happen to be zero); -1 stands for a value above AllocLimit
SizeOf(b, hi) ==
    LET m == Len(b)
        hiZero == \A i \in 4..m : b[i] = 0
        low == (IF m >= 1 THEN b[1] ELSE 0) + (IF m >= 2 THEN 256 * b[2] ELSE 0)
               + (IF m >= 3 THEN 65536 * b[3] ELSE 0)
        top == IF hi = 0 \/ m = WordSize THEN 0
               ELSE IF m = 0 THEN hi
               ELSE IF m = 1 THEN 256 * hi
               ELSE IF m = 2 THEN 65536 * hi
               ELSE AllocLimit + 1
    IN  IF ~hiZero \/ low + top > AllocLimit THEN -1 ELSE low + top

(***************************************************************************)
(* StringHasher: FNV-1a over the bytes of the key, 64-bit arithmetic.      *)
(***************************************************************************)
RECURSIVE XorBits(_, _, _)
\* a ^ b on n-bit operands
XorBits(a, b, n) ==
    IF n = 0 THEN 0
    ELSE (((a % 2) + (b % 2)) % 2) + 2 * XorBits(a \div 2, b \div 2, n - 1)

\* 14695981039346656037, least significant byte first
FnvOffsetBasis == <<37, 35, 34, 132, 228, 156, 242, 203>>

\* 1099511628211 = 2^40 + 2^8 + 179, least significant byte first
FnvPrime == <<179, 1, 0, 0, 0, 1, 0, 0>>

RECURSIVE MulCol(_, _, _, _)
\* bytes i..8 of a * p modulo 2^64, the carry of the lower columns given
MulCol(a, p, i, carry) ==
    IF i > WordSize THEN <<>>
    ELSE LET RECURSIVE Col(_)
             Col(j) == IF j = 0 THEN 0 ELSE a[j] * p[i - j + 1] + Col(j - 1)
             s == Col(i) + carry
         IN  <<s % 256>> \o MulCol(a, p, i + 1, s \div 256)

U64Mul(a, p) == MulCol(a, p, 1, 0)

RECURSIVE FnvFold(_, _, _)
\* hash ^= byte; hash *= prime, for the bytes of key from position i on
FnvFold(hash, key, i) ==
    IF i > Len(key) THEN hash
    ELSE FnvFold(U64Mul([hash EXCEPT ![1] = XorBits(hash[1], key[i], 8)], FnvPrime),
                 key, i + 1)

StringHasher(key) == FnvFold(FnvOffsetBasis, key, 1)

RECURSIVE U64Mod(_, _, _)
\* the 64-bit number made of bytes i..8 of a, modulo n
U64Mod(a, n, i) ==
    IF i > WordSize THEN 0 ELSE (a[i] + (256 * U64Mod(a, n, i + 1))) % n


(***************************************************************************)
(* State.                                                                  *)
(***************************************************************************)
VARIABLES
    sync_mode,      \* Config::sync_wal, fixed at start
    sentry_fails,   \* the build: a write on a stream that is not good() sets failbit
    file,           \* the bytes of the log file the operating system holds
    stable,         \* how many of them have reached stable storage
    alive,          \* a KVServer object exists (its constructor returned)
    running,        \* KVServer::running
    wal,            \* the WriteAheadLog: log_file (is_open, iostate, pending), sequence_number
    buckets,        \* ConcurrentHashMap::buckets: bucket index -> list of <<key, value>>
    item_count,     \* ConcurrentHashMap::item_count
    pc,             \* where each connection handler is in processCommand
    key,            \* the key of the command a handler is processing
    value,          \* its value
    idx,            \* the bucket a handler's store.clear() has reached
    reply,          \* the last response a handler sent
    ops,            \* client commands started so far
    restarts,       \* process terminations so far
    boot,           \* how the last construction went: "none", "clean", "torn", "threw"
    flushes,        \* FLUSH since construction: "none", "alone", or "raced" (one
                    \* overlapped a PUT or DELETE)
    overlapped,     \* two commands have overlapped since construction
    base,           \* the length of the log when this log object opened or cleared it
    mutexes,        \* file_mutex and the buckets' shared_mutexes: who holds them
    todo            \* the lock and unlock calls a thread's operation has yet to make

vars == <<sync_mode, sentry_fails, file, stable, alive, running, wal, buckets,
          item_count, pc, key, value, idx, reply, ops, restarts, boot,
          flushes, overlapped, base, mutexes, todo>>

(***************************************************************************)
(* ConcurrentHashMap.  insert, erase, find and exists run under the lock   *)
(* of the one bucket they touch, so each is one step.                      *)
(***************************************************************************)
BucketIds == 0..(NumBuckets - 1)

EmptyBuckets == [i \in BucketIds |-> <<>>]

\* WriteAheadLog::file_mutex (a std::mutex) and Bucket::mutex (a
\* std::shared_mutex) of every bucket, none of them held: owner is the thread
\* holding the mutex exclusively (0: none), shared the threads holding it shared
Unlocked == [owner |-> 0, shared |-> {}]

FreeMutexes == [file_mutex |-> Unlocked, mutex |-> [b \in BucketIds |-> Unlocked]]

\* hasher(key) % buckets.size()
getBucket(k) == U64Mod(StringHasher(k), NumBuckets, 1)

\* Bucket::find: the position of the first item with this key, 0 for items.end()
BucketFind(items, k) ==
    IF \E i \in 1..Len(items) : items[i][1] = k
    THEN CHOOSE i \in 1..Len(items) :
            items[i][1] = k /\ \A j \in 1..(i - 1) : items[j][1] # k
    ELSE 0

RemoveAt(items, i) == SubSeq(items, 1, i - 1) \o SubSeq(items, i + 1, Len(items))

\* the map as a pair of its buckets and its counter (a size_t, as 8 bytes)
Store(b, n) == [buckets |-> b, item_count |-> n]

\* insert as it would be if it left the value of a key already present alone
MapInsertKeepsOld(m, k, v) ==
    LET b == getBucket(k)
        it == BucketFind(m.buckets[b], k)
    IN  IF it # 0
        THEN [store |-> m, ret |-> FALSE]
        ELSE [store |-> Store([m.buckets EXCEPT ![b] = Append(@, <<k, v>>)],
                              U64Inc(m.item_count)),
              ret |-> TRUE]

MapInsert(m, k, v) ==
    LET b == getBucket(k)
        it == BucketFind(m.buckets[b], k)
    IN  IF it # 0
        THEN [store |-> Store([m.buckets EXCEPT ![b][it] = <<k, v>>], m.item_count),
              ret |-> FALSE]
        ELSE [store |-> Store([m.buckets EXCEPT ![b] = Append(@, <<k, v>>)],
                              U64Inc(m.item_count)),
              ret |-> TRUE]

\* erase as it would be if it did not count the item it removed
MapEraseKeepsCount(m, k) ==
    LET b == getBucket(k)
        it == BucketFind(m.buckets[b], k)
    IN  IF it = 0
        THEN [store |-> m, ret |-> FALSE]
        ELSE [store |-> Store([m.buckets EXCEPT ![b] = RemoveAt(@, it)], m.item_count),
              ret |-> TRUE]

MapErase(m, k) ==
    LET b == getBucket(k)
        it == BucketFind(m.buckets[b], k)
    IN  IF it = 0
        THEN [store |-> m, ret |-> FALSE]
        ELSE [store |-> Store([m.buckets EXCEPT ![b] = RemoveAt(@, it)],
                              U64Dec(m.item_count)),
              ret |-> TRUE]

\* find as it would be if it copied the item's key where it should copy its value
MapFindReturnsKey(m, k) ==
    LET items == m.buckets[getBucket(k)]
        it == BucketFind(items, k)
    IN  IF it = 0 THEN <<FALSE, <<>> >> ELSE <<TRUE, items[it][1]>>

\* find: <<TRUE, value>> or <<FALSE, <<>> >>
MapFind(m, k) ==
    LET items == m.buckets[getBucket(k)]
        it == BucketFind(items, k)
    IN  IF it = 0 THEN <<FALSE, <<>> >> ELSE <<TRUE, items[it][2]>>


(***************************************************************************)
(* WriteAheadLog.  Every public method holds file_mutex from its first to  *)
(* its last statement, so each is one step; each is written as an operator *)
(* from the log object w and the file f to their new values and the        *)
(* method's result.                                                        *)
(***************************************************************************)
\* static_cast<uint8_t>(Operation::PUT)
OpPUT == 0
\* static_cast<uint8_t>(Operation::DELETE): PUT, GET, DELETE, EXISTS, SIZE
OpDELETE == 2

\* sizeof(uint64_t) * 2 + 1 + sizeof(size_t) * 2 + 1024 + 65536
MaxEntrySize == (WordSize * 2) + 1 + (WordSize * 2) + 1024 + 65536

Min(a, b) == IF a < b THEN a ELSE b

\* the record as it would be if the operation took two bytes
EncodeWideOp(seq, ts, op, k, v) ==
    seq \o ts \o <<op, 0>> \o U64Of(Len(k)) \o k \o U64Of(Len(v)) \o v

\* the record writeEntry assembles in write_buffer
Encode(seq, ts, op, k, v) ==
    seq \o ts \o <<op>> \o U64Of(Len(k)) \o k \o U64Of(Len(v)) \o v

\* log_file.good()
Good(w) == w.iostate = {}

\* !log_file: failbit or badbit is set
Fail(w) == w.iostate \cap {"failbit", "badbit"} # {}

\* a log object before its constructor has opened the file
ClosedLog ==
    [iostate |-> {}, is_open |-> FALSE, pending |-> <<>>,
     sequence_number |-> Zeros(WordSize)]

\* open(filename, in | out | app) creates the file if need be and, on success,
\* clears the stream's state
ensureOpen(w) ==
    IF w.is_open THEN w ELSE [w EXCEPT !.is_open = TRUE, !.iostate = {}]

\* log_file.write: the sentry lets the bytes into the filebuf only if good()
StreamWrite(w, bytes) ==
    IF Good(w) THEN [w EXCEPT !.pending = @ \o bytes]
    ELSE IF sentry_fails \/ "badbit" \in w.iostate
         THEN [w EXCEPT !.iostate = @ \cup {"failbit"}]
         ELSE w

\* log_file.flush(): the filebuf hands its bytes to the operating system
StreamFlush(w, f) ==
    IF Good(w)
    THEN [wal |-> [w EXCEPT !.pending = <<>>], file |-> f \o w.pending]
    ELSE [wal |-> w, file |-> f]

syncToDisk(w, f) ==
    IF sync_mode /\ w.is_open THEN StreamFlush(w, f) ELSE [wal |-> w, file |-> f]

\* writeEntry as it would be if it gave out the number without advancing it
writeEntryKeepsSeq(w, f, op, k, v, ts) ==
    LET w1 == ensureOpen(w)
        w3 == StreamWrite(w1, Encode(w1.sequence_number, ts, op, k, v))
    IN  IF Fail(w3)
        THEN [wal |-> w3, file |-> f, ret |-> FALSE]
        ELSE LET r == syncToDisk(w3, f)
             IN  [wal |-> r.wal, file |-> r.file, ret |-> TRUE]

writeEntry(w, f, op, k, v, ts) ==
    LET w1 == ensureOpen(w)
        seq == w1.sequence_number
        w2 == [w1 EXCEPT !.sequence_number = U64Inc(seq)]
        w3 == StreamWrite(w2, Encode(seq, ts, op, k, v))
    IN  IF Fail(w3)
        THEN [wal |-> w3, file |-> f, ret |-> FALSE]
        ELSE LET r == syncToDisk(w3, f)
             IN  [wal |-> r.wal, file |-> r.file, ret |-> TRUE]

\* the larger of two words
U64Max(words) == CHOOSE m \in words : \A x \in words : U64Geq(m, x)

RECURSIVE ScanBackOver(_, _, _)
\* the largest 8-byte word found at the offsets lo..hi of the buffer
ScanBackOver(buffer, lo, hi) ==
    IF lo = hi THEN SubSeq(buffer, lo, lo + WordSize - 1)
    ELSE U64Max({ScanBackOver(buffer, lo, (lo + hi) \div 2),
                 ScanBackOver(buffer, (lo + hi) \div 2 + 1, hi)})

\* for (i = buffer.size() - 8; i >= 0; --i) if (potential_seq >= last_seq)
\* last_seq = potential_seq: starting from 0, the loop leaves in last_seq the
\* largest 8-byte word found at any offset of the buffer (0 if it has none)
ScanBack(buffer) ==
    IF Len(buffer) < WordSize THEN Zeros(WordSize)
    ELSE ScanBackOver(buffer, 1, Len(buffer) - WordSize + 1)

recoverSequenceNumber(w, f) ==
    LET w1 == ensureOpen(w)
        file_size == Len(f)
        read_size == Min(file_size, MaxEntrySize)
        buffer == SubSeq(f, file_size - read_size + 1, file_size)
        last_seq == ScanBack(buffer)
    IN  IF file_size = 0
        THEN [w1 EXCEPT !.sequence_number = Zeros(WordSize)]
        ELSE [w1 EXCEPT !.sequence_number = U64Inc(last_seq)]

\* the values an uninitialised op_val, key_size or value_size may hold when the
\* read that should have set it failed
Garbage ==
    [op : {OpPUT, 1, OpDELETE}, key_size : 0..MaxGarbageLen,
     value_size : 0..MaxGarbageLen]

\* log_file.read(dst, n) at cursor cur = [pos, good]: nothing once the stream has
\* failed; the n bytes; or the bytes left, setting eofbit and failbit
Read(f, cur, n) ==
    IF ~cur.good THEN [bytes |-> <<>>, cur |-> cur]
    ELSE IF Len(f) - cur.pos + 1 >= n
    THEN [bytes |-> SubSeq(f, cur.pos, cur.pos + n - 1),
          cur |-> [pos |-> cur.pos + n, good |-> TRUE]]
    ELSE [bytes |-> SubSeq(f, cur.pos, Len(f)),
          cur |-> [pos |-> Len(f) + 1, good |-> FALSE]]

\* the locals of one pass of the loop before anything is read into them, the
\* stream's cursor at pos
NoEntry(pos) ==
    [cur |-> [pos |-> pos, good |-> TRUE], seq |-> <<>>, timestamp |-> <<>>,
     op_val |-> <<>>, key_size |-> <<>>, key |-> <<>>, value_size |-> <<>>,
     value |-> <<>>]

\* log_file.read(reinterpret_cast<char*>(&local), n): the bytes that arrived
ReadInto(f, e, local, n) ==
    LET r == Read(f, e.cur, n)
    IN  [e EXCEPT ![local] = r.bytes, !.cur = r.cur]

\* std::string s(n, '\0'); log_file.read(&s[0], n)
ReadString(f, e, local, n) ==
    LET r == Read(f, e.cur, n)
    IN  [e EXCEPT ![local] = r.bytes \o Zeros(n - Len(r.bytes)), !.cur = r.cur]

KeySize(e, g) == SizeOf(e.key_size, g.key_size)

ValueSize(e, g) == SizeOf(e.value_size, g.value_size)

\* op_val after its read: the byte, or what the local held
OpVal(e, g) == IF Len(e.op_val) = 1 THEN e.op_val[1] ELSE g.op

ReadKey(f, e, g) == ReadString(f, e, "key", KeySize(e, g))

ReadValue(f, e, g) ==
    IF ValueSize(e, g) > 0 THEN ReadString(f, e, "value", ValueSize(e, g)) ELSE e

\* the reads of one pass of the loop, in the order of the source
ReadEntry(f, pos, g) ==
    ReadValue(f,
        ReadInto(f,
            ReadKey(f,
                ReadInto(f,
                    ReadInto(f,
                        ReadInto(f,
                            ReadInto(f, NoEntry(pos), "seq", WordSize),
                            "timestamp", WordSize),
                        "op_val", 1),
                    "key_size", WordSize),
                g),
            "value_size", WordSize),
        g)

\* switch (op): the callback the pass makes, appended to those made so far
Callback(calls, e, g) ==
    IF OpVal(e, g) = OpPUT
    THEN Append(calls, [f |-> "insert", key |-> e.key, value |-> e.value])
    ELSE IF OpVal(e, g) = OpDELETE
    THEN Append(calls, [f |-> "erase", key |-> e.key, value |-> <<>>])
    ELSE calls

\* if (seq >= sequence_number.load()) sequence_number.store(seq + 1)
NextSeq(seqno, e) == IF U64Geq(e.seq, seqno) THEN U64Inc(e.seq) ELSE seqno

ReplayEnd(seqno, calls, st, threw) ==
    [sequence_number |-> seqno, calls |-> calls, iostate |-> st, threw |-> threw]

RECURSIVE ReplayLoop(_, _, _, _, _)
\* one pass of the loop, its reads done into e, and the passes after it
ReplayPass(f, seqno, calls, g, e) ==
    IF Len(e.seq) < WordSize
    THEN ReplayEnd(seqno, calls, {"eofbit", "failbit"}, FALSE)
    ELSE IF KeySize(e, g) = -1 \/ ValueSize(e, g) = -1
    THEN ReplayEnd(seqno, calls, {"eofbit", "failbit"}, TRUE)
    ELSE IF ~e.cur.good
    THEN ReplayEnd(NextSeq(seqno, e), Callback(calls, e, g),
                   {"eofbit", "failbit"}, FALSE)
    ELSE ReplayLoop(f, e.cur.pos, NextSeq(seqno, e), Callback(calls, e, g), g)

\* the while loop of replay from position pos of the file; g is what the
\* uninitialised locals hold; peek() at the end of the file sets eofbit
ReplayLoop(f, pos, seqno, calls, g) ==
    IF pos > Len(f) THEN ReplayEnd(seqno, calls, {"eofbit"}, FALSE)
    ELSE ReplayPass(f, seqno, calls, g, ReadEntry(f, pos, g))

\* the log object and the outcome of the loop r, put together
Replayed(w, f, r) ==
    [wal |-> [w EXCEPT !.iostate = r.iostate, !.sequence_number = r.sequence_number],
     file |-> f, calls |-> r.calls, threw |-> r.threw]

\* replay on a stream that is open and good, its filebuf empty (the state the
\* constructor of WriteAheadLog leaves)
replay(w, f, g) == Replayed(w, f, ReplayLoop(f, 1, w.sequence_number, <<>>, g))

\* clear as it would be without sequence_number.store(0)
clearKeepsSeq(w, f) ==
    [wal |-> ensureOpen([ClosedLog EXCEPT !.sequence_number = w.sequence_number]),
     file |-> <<>>, ret |-> TRUE]

\* close, std::remove, sequence_number.store(0), ensureOpen
clear(w, f) ==
    [wal |-> ensureOpen([ClosedLog EXCEPT !.sequence_number = Zeros(WordSize)]),
     file |-> <<>>, ret |-> TRUE]


(***************************************************************************)
(* KVServer: construction (recovery), start, and processCommand.           *)
(***************************************************************************)
Idle == [c \in Clients |-> "idle"]
NoKeys == [c \in Clients |-> <<>>]
NoReply == [c \in Clients |-> [value |-> <<>>, status |-> "none"]]
Response(s) == [value |-> <<>>, status |-> s]

\* return "ERROR WAL write failed"
WalError == "ERROR WAL write failed"

RECURSIVE ApplyCalls(_, _, _)
\* the callbacks of recoverFromWAL, applied in the order replay makes them:
\* insert_func is store.insert, delete_func is store.erase
ApplyCalls(m, calls, i) ==
    IF i > Len(calls) THEN m
    ELSE ApplyCalls(IF calls[i].f = "insert"
                    THEN MapInsert(m, calls[i].key, calls[i].value).store
                    ELSE MapErase(m, calls[i].key).store,
                    calls, i + 1)

\* recoverFromWAL: the map the callbacks of r build, with what replay left
Recovered(r) ==
    [wal |-> r.wal, file |-> r.file, threw |-> r.threw,
     store |-> ApplyCalls(Store(EmptyBuckets, Zeros(WordSize)), r.calls, 1)]

\* what the constructor of KVServer makes of the file f when the locals of
\* replay hold g: the log object, the file, the map, and whether it threw
recoverFromWAL(f, g) ==
    Recovered(replay(recoverSequenceNumber(ensureOpen(ClosedLog), f), f, g))

Init ==
    /\ sync_mode \in BOOLEAN
    /\ sentry_fails \in BOOLEAN
    /\ file = <<>>
    /\ stable = 0
    /\ alive = FALSE
    /\ running = FALSE
    /\ wal = ClosedLog
    /\ buckets = EmptyBuckets
    /\ item_count = Zeros(WordSize)
    /\ pc = Idle
    /\ key = NoKeys
    /\ value = NoKeys
    /\ idx = [c \in Clients |-> 0]
    /\ reply = NoReply
    /\ ops = 0
    /\ restarts = 0
    /\ boot = "none"
    /\ flushes = "none"
    /\ overlapped = FALSE
    /\ base = 0
    /\ mutexes = FreeMutexes
    /\ todo = [t \in Threads |-> <<>>]

\* KVServer::KVServer: the members are constructed (the map empty, the log
\* opened and its sequence number guessed), then recoverFromWAL replays the log.
\* An exception leaving replay leaves the constructor and ends the process.
Construct ==
    /\ ~alive
    /\ \E g \in Garbage : \E r \in {recoverFromWAL(file, g)} :
            IF r.threw
            THEN /\ boot' = "threw"
                 /\ UNCHANGED <<alive, wal, buckets, item_count, file, base>>
            ELSE /\ boot' = IF "failbit" \in r.wal.iostate THEN "torn" ELSE "clean"
                 /\ alive' = TRUE
                 /\ wal' = r.wal
                 /\ file' = r.file
                 /\ buckets' = r.store.buckets
                 /\ item_count' = r.store.item_count
                 /\ base' = Len(r.file)
    /\ running' = FALSE
    /\ pc' = Idle /\ key' = NoKeys /\ value' = NoKeys /\ reply' = NoReply
    /\ idx' = [c \in Clients |-> 0]
    /\ flushes' = "none" /\ overlapped' = FALSE
    /\ UNCHANGED <<sync_mode, sentry_fails, stable, ops, restarts, mutexes, todo>>

\* start as it would be if the constructor called it before recoverFromWAL
StartBeforeRecovery ==
    /\ ~running
    /\ alive \/ todo[Main] # <<>>
    /\ running' = TRUE
    /\ UNCHANGED <<sync_mode, sentry_fails, file, stable, alive, wal, buckets,
                   item_count, pc, key, value, idx, reply, ops, restarts, boot,
                   flushes, overlapped>>
    /\ UNCHANGED <<base, mutexes, todo>>

\* KVServer::start
Start ==
    /\ alive /\ ~running
    /\ running' = TRUE
    /\ UNCHANGED <<sync_mode, sentry_fails, file, stable, alive, wal, buckets,
                   item_count, pc, key, value, idx, reply, ops, restarts, boot,
                   flushes, overlapped>>
    /\ UNCHANGED <<base, mutexes, todo>>

\* the values the threads of LockSpec pass to PUT
LockValues == {<<49>>}

Writing == {"put_insert", "del_erase"}
Flushing == {"clear", "wal_clear"}

\* the bookkeeping of a handler c starting a command of the given kind
Begin(c, kind) ==
    /\ alive /\ running
    /\ pc[c] = "idle"
    /\ ops < MaxOps
    /\ ops' = ops + 1
    /\ overlapped' = (overlapped \/ \E d \in Clients \ {c} : pc[d] # "idle")
    /\ flushes' =
         IF \/ (kind = "write" /\ \E d \in Clients \ {c} : pc[d] \in Flushing)
            \/ (kind = "flush" /\ \E d \in Clients \ {c} : pc[d] \in Writing)
         THEN "raced"
         ELSE IF kind = "flush" /\ flushes = "none" THEN "alone"
         ELSE flushes

\* PUT as it would be if the map were updated whatever writeEntry returned
PutWalThenInsertAnyway(c, k, v, ts) ==
    /\ Begin(c, "write")
    /\ \E r \in {writeEntry(wal, file, OpPUT, k, v, ts)} :
        /\ wal' = r.wal
        /\ file' = r.file
        /\ IF r.ret
           THEN /\ pc' = [pc EXCEPT ![c] = "put_insert"]
                /\ key' = [key EXCEPT ![c] = k]
                /\ value' = [value EXCEPT ![c] = v]
                /\ reply' = [reply EXCEPT ![c] = Response("none")]
                /\ UNCHANGED <<buckets, item_count>>
           ELSE /\ reply' = [reply EXCEPT ![c] = Response(WalError)]
                /\ \E m \in {MapInsert(Store(buckets, item_count), k, v)} :
                    /\ buckets' = m.store.buckets
                    /\ item_count' = m.store.item_count
                /\ UNCHANGED <<pc, key, value>>
    /\ UNCHANGED <<sync_mode, sentry_fails, stable, alive, running, idx, restarts,
                   boot>>
    /\ UNCHANGED <<base, mutexes, todo>>

\* processCommand, "PUT": wal.writeEntry(Operation::PUT, key, value)
PutWal(c, k, v, ts) ==
    /\ Begin(c, "write")
    /\ LET r == writeEntry(wal, file, OpPUT, k, v, ts)
       IN  /\ wal' = r.wal
           /\ file' = r.file
           /\ IF r.ret
              THEN /\ pc' = [pc EXCEPT ![c] = "put_insert"]
                   /\ key' = [key EXCEPT ![c] = k]
                   /\ value' = [value EXCEPT ![c] = v]
                   /\ reply' = [reply EXCEPT ![c] = Response("none")]
              ELSE /\ reply' = [reply EXCEPT ![c] = Response(WalError)]
                   /\ UNCHANGED <<pc, key, value>>
    /\ UNCHANGED <<sync_mode, sentry_fails, stable, alive, running, buckets,
                   item_count, idx, restarts, boot>>
    /\ UNCHANGED <<base, mutexes, todo>>

\* processCommand, "PUT": store.insert(key, value); return "OK"
PutInsert(c) ==
    /\ alive /\ pc[c] = "put_insert"
    /\ LET r == MapInsert(Store(buckets, item_count), key[c], value[c])
       IN  /\ buckets' = r.store.buckets
           /\ item_count' = r.store.item_count
    /\ reply' = [reply EXCEPT ![c] = Response("OK")]
    /\ pc' = [pc EXCEPT ![c] = "idle"]
    /\ key' = [key EXCEPT ![c] = <<>>]
    /\ value' = [value EXCEPT ![c] = <<>>]
    /\ UNCHANGED <<sync_mode, sentry_fails, file, stable, alive, running, wal,
                   idx, ops, restarts, boot, flushes, overlapped>>
    /\ UNCHANGED <<base, mutexes, todo>>

\* processCommand, "DELETE": wal.writeEntry(Operation::DELETE, key)
DelWal(c, k, ts) ==
    /\ Begin(c, "write")
    /\ LET r == writeEntry(wal, file, OpDELETE, k, <<>>, ts)
       IN  /\ wal' = r.wal
           /\ file' = r.file
           /\ IF r.ret
              THEN /\ pc' = [pc EXCEPT ![c] = "del_erase"]
                   /\ key' = [key EXCEPT ![c] = k]
                   /\ reply' = [reply EXCEPT ![c] = Response("none")]
              ELSE /\ reply' = [reply EXCEPT ![c] = Response(WalError)]
                   /\ UNCHANGED <<pc, key>>
    /\ UNCHANGED <<sync_mode, sentry_fails, stable, alive, running, buckets,
                   item_count, value, idx, restarts, boot>>
    /\ UNCHANGED <<base, mutexes, todo>>

\* processCommand, "DELETE": store.erase(key) ? "OK" : "NOT_FOUND"
DelErase(c) ==
    /\ alive /\ pc[c] = "del_erase"
    /\ LET r == MapErase(Store(buckets, item_count), key[c])
       IN  /\ buckets' = r.store.buckets
           /\ item_count' = r.store.item_count
           /\ reply' = [reply EXCEPT ![c] =
                          Response(IF r.ret THEN "OK" ELSE "NOT_FOUND")]
    /\ pc' = [pc EXCEPT ![c] = "idle"]
    /\ key' = [key EXCEPT ![c] = <<>>]
    /\ UNCHANGED <<sync_mode, sentry_fails, file, stable, alive, running, wal,
                   value, idx, ops, restarts, boot, flushes, overlapped>>
    /\ UNCHANGED <<base, mutexes, todo>>

\* processCommand, "GET": store.find(key, result)
Get(c, k) ==
    /\ Begin(c, "read")
    /\ LET r == MapFind(Store(buckets, item_count), k)
       IN  reply' = [reply EXCEPT ![c] =
                       IF r[1] THEN [value |-> r[2], status |-> "VALUE"]
                       ELSE Response("NOT_FOUND")]
    /\ UNCHANGED <<sync_mode, sentry_fails, file, stable, alive, running, wal,
                   buckets, item_count, pc, key, value, idx, restarts, boot>>
    /\ UNCHANGED <<base, mutexes, todo>>


\* processCommand, "FLUSH": store.clear() takes the buckets one at a time, each
\* under its own lock; this is the command's start and the first bucket
FlushStart(c) ==
    /\ Begin(c, "flush")
    /\ buckets' = [buckets EXCEPT ![0] = <<>>]
    /\ idx' = [idx EXCEPT ![c] = 1]
    /\ pc' = [pc EXCEPT ![c] = "clear"]
    /\ reply' = [reply EXCEPT ![c] = Response("none")]
    /\ UNCHANGED <<sync_mode, sentry_fails, file, stable, alive, running, wal,
                   item_count, key, value, restarts, boot>>
    /\ UNCHANGED <<base, mutexes, todo>>

\* store.clear(): the next bucket
ClearBucket(c) ==
    /\ alive /\ pc[c] = "clear" /\ idx[c] < NumBuckets
    /\ buckets' = [buckets EXCEPT ![idx[c]] = <<>>]
    /\ idx' = [idx EXCEPT ![c] = @ + 1]
    /\ UNCHANGED <<sync_mode, sentry_fails, file, stable, alive, running, wal,
                   item_count, pc, key, value, reply, ops, restarts, boot,
                   flushes, overlapped>>
    /\ UNCHANGED <<base, mutexes, todo>>

\* store.clear(): item_count.store(0), after the last bucket's lock is released
ClearCount(c) ==
    /\ alive /\ pc[c] = "clear" /\ idx[c] = NumBuckets
    /\ item_count' = Zeros(WordSize)
    /\ idx' = [idx EXCEPT ![c] = 0]
    /\ pc' = [pc EXCEPT ![c] = "wal_clear"]
    /\ UNCHANGED <<sync_mode, sentry_fails, file, stable, alive, running, wal,
                   buckets, key, value, reply, ops, restarts, boot, flushes,
                   overlapped>>
    /\ UNCHANGED <<base, mutexes, todo>>

\* processCommand, "FLUSH": wal.clear(); return "OK"
FlushWal(c) ==
    /\ alive /\ pc[c] = "wal_clear"
    /\ LET r == clear(wal, file)
       IN  /\ wal' = r.wal
           /\ file' = r.file
    /\ stable' = 0
    /\ reply' = [reply EXCEPT ![c] = Response("OK")]
    /\ pc' = [pc EXCEPT ![c] = "idle"]
    /\ UNCHANGED <<sync_mode, sentry_fails, alive, running, buckets, item_count,
                   key, value, idx, ops, restarts, boot, flushes, overlapped>>
    /\ base' = 0
    /\ UNCHANGED <<mutexes, todo>>

(***************************************************************************)
(* The process and the machine.                                            *)
(***************************************************************************)
\* the process ends: its objects and threads are gone
Terminate ==
    /\ restarts < MaxRestarts
    /\ restarts' = restarts + 1
    /\ alive' = FALSE
    /\ running' = FALSE
    /\ wal' = ClosedLog
    /\ buckets' = EmptyBuckets
    /\ item_count' = Zeros(WordSize)
    /\ pc' = Idle /\ key' = NoKeys /\ value' = NoKeys /\ reply' = NoReply
    /\ idx' = [c \in Clients |-> 0]
    /\ UNCHANGED <<sync_mode, sentry_fails, ops, boot, flushes, overlapped>>
    /\ UNCHANGED <<base, mutexes, todo>>

\* signalHandler: stop(), exit(0); ~WriteAheadLog closes log_file, and closing
\* hands the filebuf's bytes to the operating system
Shutdown ==
    /\ alive
    /\ Terminate
    /\ file' = file \o wal.pending
    /\ UNCHANGED stable

\* the process is killed: what the filebuf had not yet handed over is lost (it
\* hands its bytes over whenever it fills, so a part of them may have left)
Kill ==
    /\ alive
    /\ Terminate
    /\ \E n \in 0..Len(wal.pending) : file' = file \o SubSeq(wal.pending, 1, n)
    /\ UNCHANGED stable

\* the machine loses power: of the file, what had reached stable storage
\* survives, and any part of the rest
PowerLoss ==
    /\ alive
    /\ Terminate
    /\ \E n \in stable..Len(file) : file' = SubSeq(file, 1, n) /\ stable' = n

\* the operating system writes its dirty pages back
OSWriteback ==
    /\ stable < Len(file)
    /\ stable' = Len(file)
    /\ UNCHANGED <<sync_mode, sentry_fails, file, alive, running, wal, buckets,
                   item_count, pc, key, value, idx, reply, ops, restarts, boot,
                   flushes, overlapped>>
    /\ UNCHANGED <<base, mutexes, todo>>

Next ==
    \/ Construct
    \/ Start
    \/ \E c \in Clients, k \in Keys, v \in Values, ts \in Timestamps : PutWal(c, k, v, ts)
    \/ \E c \in Clients : PutInsert(c)
    \/ \E c \in Clients, k \in Keys, ts \in Timestamps : DelWal(c, k, ts)
    \/ \E c \in Clients : DelErase(c)
    \/ \E c \in Clients, k \in Keys : Get(c, k)
    \/ \E c \in Clients : FlushStart(c)
    \/ \E c \in Clients : ClearBucket(c)
    \/ \E c \in Clients : ClearCount(c)
    \/ \E c \in Clients : FlushWal(c)
    \/ Shutdown
    \/ Kill
    \/ PowerLoss
    \/ OSWriteback

Spec == Init /\ [][Next]_vars

(***************************************************************************)
(* WriteAheadLog on its own: a process that opens the log without an       *)
(* engine around it (as the persistence tests do) and any caller of its    *)
(* public writeEntry and clear, next to processes that construct a         *)
(* KVServer on the same file.                                              *)
(***************************************************************************)
\* the ops a caller may pass to writeEntry: PUT, GET and DELETE
WalOps == {OpPUT, 1, OpDELETE}

\* the keys a caller may pass
WalKeys == {<<97>>}

\* the values a caller may pass: a short one, and eight bytes of 0xFF
WalValues == {<<49>>, <<255, 255, 255, 255, 255, 255, 255, 255>>}

\* WriteAheadLog::WriteAheadLog: ensureOpen(); recoverSequenceNumber(); nothing
\* replays the file
WalOpen ==
    /\ ~alive
    /\ alive' = TRUE
    /\ wal' = recoverSequenceNumber(ensureOpen(ClosedLog), file)
    /\ boot' = "none"
    /\ base' = Len(file)
    /\ UNCHANGED <<sync_mode, sentry_fails, file, stable, running, buckets,
                   item_count, pc, key, value, idx, reply, ops, restarts,
                   flushes, overlapped, mutexes, todo>>

\* thread c calls writeEntry(op, k, v) and is handed what it returns
WalWrite(c, op, k, v, ts) ==
    /\ alive
    /\ ops < MaxOps
    /\ ops' = ops + 1
    /\ \E r \in {writeEntry(wal, file, op, k, v, ts)} :
        /\ wal' = r.wal
        /\ file' = r.file
        /\ reply' = [reply EXCEPT ![c] = Response(IF r.ret THEN "true" ELSE "false")]
    /\ UNCHANGED <<sync_mode, sentry_fails, stable, alive, running, buckets,
                   item_count, pc, key, value, idx, restarts, boot, flushes,
                   overlapped, base, mutexes, todo>>

\* a caller calls clear()
WalClear ==
    /\ alive
    /\ \E r \in {clear(wal, file)} :
        /\ wal' = r.wal
        /\ file' = r.file
    /\ stable' = 0
    /\ base' = 0
    /\ UNCHANGED <<sync_mode, sentry_fails, alive, running, buckets, item_count,
                   pc, key, value, idx, reply, ops, restarts, boot, flushes,
                   overlapped, mutexes, todo>>

WalNext ==
    \/ Construct
    \/ WalOpen
    \/ \E c \in Clients, op \in WalOps, k \in WalKeys, v \in WalValues, ts \in Timestamps :
            WalWrite(c, op, k, v, ts)
    \/ WalClear
    \/ Shutdown

WalSpec == Init /\ [][WalNext]_vars

(***************************************************************************)
(* A caller of writeEntry, clear and size on a log it has opened on an     *)
(* empty file, as the persistence tests are.                               *)
(***************************************************************************)
\* static_cast<size_t>(-1), what size() returns when tellg() fails
NoSize == [i \in 1..WordSize |-> 255]

\* the stream after seekg(0, end), which clears eofbit first, and what tellg()
\* gives then: the filebuf writes out what it holds before it seeks
SizeAt(w, f) ==
    IF Fail(w) THEN [wal |-> w, file |-> f, ret |-> NoSize]
    ELSE [wal |-> [w EXCEPT !.pending = <<>>], file |-> f \o w.pending,
          ret |-> U64Of(Len(f) + Len(w.pending))]

SeekEnd(w) == [w EXCEPT !.iostate = @ \ {"eofbit"}]

\* WriteAheadLog::size
size(w, f) == SizeAt(SeekEnd(ensureOpen(w)), f)

\* a caller calls size() and is handed the number
WalSize(c) ==
    /\ alive
    /\ \E r \in {size(wal, file)} :
        /\ wal' = r.wal
        /\ file' = r.file
        /\ reply' = [reply EXCEPT ![c] = [value |-> r.ret, status |-> "SIZE"]]
    /\ UNCHANGED <<sync_mode, sentry_fails, stable, alive, running, buckets,
                   item_count, pc, key, value, idx, ops, restarts, boot, flushes,
                   overlapped, base, mutexes, todo>>

SizeNext ==
    \/ WalOpen
    \/ \E c \in Clients, op \in WalOps, k \in WalKeys, v \in WalValues, ts \in Timestamps :
            WalWrite(c, op, k, v, ts)
    \/ WalClear
    \/ \E c \in Clients : WalSize(c)

SizeSpec == Init /\ [][SizeNext]_vars

(***************************************************************************)
(* The handler threads at the grain of their lock and unlock calls.  A     *)
(* thread's command is the list of the calls it has yet to make: each      *)
(* lock, each unlock, and between them what the method does to the bucket, *)
(* to the counter (an atomic that size() reads under no lock) or to the    *)
(* log.                                                                    *)
(***************************************************************************)
\* one call: what it is, the bucket it is made on, and the key and value
Instr(op, b, k, v) == <<op, b, k, v>>

OpOf(i) == i[1]
BucketOf(i) == i[2]
KeyOf(i) == i[3]
ValueOf(i) == i[4]

Call(op) == Instr(op, 0, <<>>, <<>>)

\* insert as it would be if it took the next bucket's mutex as well while
\* holding its own
InsertCallsNested(k, v) ==
    <<Instr("lock", getBucket(k), k, v),
      Instr("lock", (getBucket(k) + 1) % NumBuckets, k, v),
      Instr("unlock", (getBucket(k) + 1) % NumBuckets, k, v),
      Instr("emplace", getBucket(k), k, v),
      Call("fetch_add"), Instr("unlock", getBucket(k), k, v)>>

\* ConcurrentHashMap::insert: unique_lock, find and assign or emplace_back,
\* fetch_add if the key was new
InsertCalls(k, v) ==
    <<Instr("lock", getBucket(k), k, v), Instr("emplace", getBucket(k), k, v),
      Call("fetch_add"), Instr("unlock", getBucket(k), k, v)>>

\* ConcurrentHashMap::erase
EraseCalls(k) ==
    <<Instr("lock", getBucket(k), k, <<>>), Instr("remove", getBucket(k), k, <<>>),
      Call("fetch_sub"), Instr("unlock", getBucket(k), k, <<>>)>>

\* ConcurrentHashMap::find and exists: shared_lock, look the key up
LookupCalls(op, k) ==
    <<Instr("lock_shared", getBucket(k), k, <<>>), Instr(op, getBucket(k), k, <<>>),
      Instr("unlock_shared", getBucket(k), k, <<>>)>>

RECURSIVE EachBucket(_, _, _, _)
\* for (bucket : buckets) { lock; body; }  from bucket b on
EachBucket(lock, body, unlock, b) ==
    IF b = NumBuckets THEN <<>>
    ELSE <<Instr(lock, b, <<>>, <<>>), Instr(body, b, <<>>, <<>>),
           Instr(unlock, b, <<>>, <<>>)>> \o EachBucket(lock, body, unlock, b + 1)

\* ConcurrentHashMap::for_each
ForEachCalls == EachBucket("lock_shared", "visit", "unlock_shared", 0)

\* clear as it would be if it kept each bucket's lock until all were emptied
ClearCallsHoldsAll ==
    [b \in 1..NumBuckets |-> Instr("lock", b - 1, <<>>, <<>>)]
    \o [b \in 1..NumBuckets |-> Instr("clear_items", b - 1, <<>>, <<>>)]
    \o [b \in 1..NumBuckets |-> Instr("unlock", b - 1, <<>>, <<>>)]
    \o <<Call("store_zero")>>

\* ConcurrentHashMap::clear
ClearCalls == EachBucket("lock", "clear_items", "unlock", 0) \o <<Call("store_zero")>>

\* ConcurrentHashMap::getStatistics
StatisticsCalls ==
    <<Call("stats_size")>> \o EachBucket("lock_shared", "count_items", "unlock_shared", 0)

\* WriteAheadLog::writeEntry and clear: lock_guard on file_mutex around the body
FileCalls(op, k, v) == <<Call("lock_file"), Instr(op, 0, k, v), Call("unlock_file")>>

\* the variables no call of a handler thread changes
procVars == <<sync_mode, sentry_fails, alive, running, restarts, boot, pc, key,
              value, idx>>
logVars == <<file, stable, wal, base>>
mapVars == <<buckets, item_count>>

\* thread d is inside a PUT or DELETE
InWrite(d) ==
    \E i \in 1..Len(todo[d]) :
        OpOf(todo[d][i]) \in {"write_put", "write_delete", "emplace", "remove",
                           "fetch_add", "fetch_sub"}

\* thread d is inside a FLUSH
InFlush(d) ==
    \E i \in 1..Len(todo[d]) : OpOf(todo[d][i]) \in {"clear_items", "store_zero", "wal_clear"}

\* handleConnection of thread c has read a command of the given kind and
\* processCommand starts on it
Command(c, kind, calls, response) ==
    /\ alive /\ running
    /\ todo[c] = <<>>
    /\ ops < MaxOps
    /\ ops' = ops + 1
    /\ todo' = [todo EXCEPT ![c] = calls]
    /\ reply' = [reply EXCEPT ![c] = response]
    /\ overlapped' = (overlapped \/ \E d \in Clients \ {c} : todo[d] # <<>>)
    /\ flushes' =
         IF \/ (kind = "write" /\ \E d \in Clients \ {c} : InFlush(d))
            \/ (kind = "flush" /\ \E d \in Clients \ {c} : InWrite(d))
         THEN "raced"
         ELSE IF kind = "flush" /\ flushes = "none" THEN "alone"
         ELSE flushes
    /\ UNCHANGED <<procVars, logVars, mapVars, mutexes>>

\* processCommand, "PUT"
Put(c, k, v) ==
    Command(c, "write", FileCalls("write_put", k, v) \o InsertCalls(k, v), Response("none"))

\* processCommand, "DELETE"
Delete(c, k) ==
    Command(c, "write", FileCalls("write_delete", k, <<>>) \o EraseCalls(k), Response("none"))

\* processCommand, "GET"
Find(c, k) == Command(c, "read", LookupCalls("find", k), Response("none"))

\* processCommand, "EXISTS"
Exists(c, k) == Command(c, "read", LookupCalls("exists", k), Response("none"))

\* processCommand, "SIZE"
Size(c) == Command(c, "read", <<Call("size")>>, Response("none"))

\* processCommand, "STATS"
Stats(c) == Command(c, "read", StatisticsCalls, Response("none"))

\* processCommand, "FLUSH"
Flush(c) ==
    Command(c, "flush", ClearCalls \o FileCalls("wal_clear", <<>>, <<>>), Response("none"))

\* a thread calls store.for_each with a visitor that collects what it is shown
ForEach(c) == Command(c, "read", ForEachCalls, [value |-> <<>>, status |-> "VISITED"])

\* the call thread c makes next
Cur(c) == Head(todo[c])

\* thread c is at a call of this kind
At(c, op) == alive /\ todo[c] # <<>> /\ OpOf(Cur(c)) = op

\* the call is made, the one after it is next
Done(c) == todo' = [todo EXCEPT ![c] = Tail(@)]

\* std::unique_lock lock(bucket.mutex): blocks while anyone holds the mutex
Lock(c) ==
    /\ At(c, "lock")
    /\ mutexes.mutex[BucketOf(Cur(c))] = Unlocked
    /\ mutexes' = [mutexes EXCEPT !.mutex[BucketOf(Cur(c))].owner = c]
    /\ Done(c)
    /\ UNCHANGED <<procVars, logVars, mapVars, reply, ops, flushes, overlapped>>

\* ~unique_lock
Unlock(c) ==
    /\ At(c, "unlock")
    /\ mutexes' = [mutexes EXCEPT !.mutex[BucketOf(Cur(c))].owner = 0]
    /\ Done(c)
    /\ UNCHANGED <<procVars, logVars, mapVars, reply, ops, flushes, overlapped>>

\* std::shared_lock lock(bucket.mutex): blocks while a thread holds it exclusively
LockShared(c) ==
    /\ At(c, "lock_shared")
    /\ mutexes.mutex[BucketOf(Cur(c))].owner = 0
    /\ mutexes' = [mutexes EXCEPT !.mutex[BucketOf(Cur(c))].shared = @ \cup {c}]
    /\ Done(c)
    /\ UNCHANGED <<procVars, logVars, mapVars, reply, ops, flushes, overlapped>>

\* ~shared_lock
UnlockShared(c) ==
    /\ At(c, "unlock_shared")
    /\ mutexes' = [mutexes EXCEPT !.mutex[BucketOf(Cur(c))].shared = @ \ {c}]
    /\ Done(c)
    /\ UNCHANGED <<procVars, logVars, mapVars, reply, ops, flushes, overlapped>>

\* lock_guard as it would be if it did not wait for the mutex to be free
LockFileNoWait(c) ==
    /\ At(c, "lock_file")
    /\ mutexes' = [mutexes EXCEPT !.file_mutex.owner = c]
    /\ Done(c)
    /\ UNCHANGED <<procVars, logVars, mapVars, reply, ops, flushes, overlapped>>

\* std::lock_guard lock(file_mutex)
LockFile(c) ==
    /\ At(c, "lock_file")
    /\ mutexes.file_mutex = Unlocked
    /\ mutexes' = [mutexes EXCEPT !.file_mutex.owner = c]
    /\ Done(c)
    /\ UNCHANGED <<procVars, logVars, mapVars, reply, ops, flushes, overlapped>>

\* ~lock_guard
UnlockFile(c) ==
    /\ At(c, "unlock_file")
    /\ mutexes' = [mutexes EXCEPT !.file_mutex.owner = 0]
    /\ Done(c)
    /\ UNCHANGED <<procVars, logVars, mapVars, reply, ops, flushes, overlapped>>

\* insert as it would be if it did not look for the key first
EmplaceWithoutFind(c) ==
    /\ At(c, "emplace")
    /\ buckets' = [buckets EXCEPT
            ![BucketOf(Cur(c))] = Append(@, <<KeyOf(Cur(c)), ValueOf(Cur(c))>>)]
    /\ Done(c)
    /\ reply' = [reply EXCEPT ![c] = Response("OK")]
    /\ UNCHANGED <<procVars, logVars, item_count, mutexes, ops, flushes, overlapped>>

\* insert as it would be if it counted the key whether or not it was new
EmplaceAlwaysCounts(c) ==
    /\ At(c, "emplace")
    /\ IF BucketFind(buckets[BucketOf(Cur(c))], KeyOf(Cur(c))) # 0
       THEN buckets' = [buckets EXCEPT
                  ![BucketOf(Cur(c))][BucketFind(buckets[BucketOf(Cur(c))], KeyOf(Cur(c)))] =
                      <<KeyOf(Cur(c)), ValueOf(Cur(c))>>]
       ELSE buckets' = [buckets EXCEPT
                  ![BucketOf(Cur(c))] = Append(@, <<KeyOf(Cur(c)), ValueOf(Cur(c))>>)]
    /\ Done(c)
    /\ reply' = [reply EXCEPT ![c] = Response("OK")]
    /\ UNCHANGED <<procVars, logVars, item_count, mutexes, ops, flushes, overlapped>>

\* insert: it->second = value; return false, or items.emplace_back(key, value)
\* with fetch_add still to come; processCommand answers OK either way
Emplace(c) ==
    /\ At(c, "emplace")
    /\ IF BucketFind(buckets[BucketOf(Cur(c))], KeyOf(Cur(c))) # 0
       THEN /\ buckets' = [buckets EXCEPT
                  ![BucketOf(Cur(c))][BucketFind(buckets[BucketOf(Cur(c))], KeyOf(Cur(c)))] =
                      <<KeyOf(Cur(c)), ValueOf(Cur(c))>>]
            /\ todo' = [todo EXCEPT ![c] = Tail(Tail(@))]
       ELSE /\ buckets' = [buckets EXCEPT
                  ![BucketOf(Cur(c))] = Append(@, <<KeyOf(Cur(c)), ValueOf(Cur(c))>>)]
            /\ Done(c)
    /\ reply' = [reply EXCEPT ![c] = Response("OK")]
    /\ UNCHANGED <<procVars, logVars, item_count, mutexes, ops, flushes, overlapped>>

\* item_count.fetch_add(1)
FetchAdd(c) ==
    /\ At(c, "fetch_add")
    /\ item_count' = U64Inc(item_count)
    /\ Done(c)
    /\ UNCHANGED <<procVars, logVars, buckets, mutexes, reply, ops, flushes, overlapped>>

\* erase as it would be if it counted down whether or not it found the key
RemoveAlwaysCounts(c) ==
    /\ At(c, "remove")
    /\ IF BucketFind(buckets[BucketOf(Cur(c))], KeyOf(Cur(c))) = 0
       THEN /\ reply' = [reply EXCEPT ![c] = Response("NOT_FOUND")]
            /\ UNCHANGED buckets
       ELSE /\ buckets' = [buckets EXCEPT
                  ![BucketOf(Cur(c))] = RemoveAt(@, BucketFind(@, KeyOf(Cur(c))))]
            /\ reply' = [reply EXCEPT ![c] = Response("OK")]
    /\ Done(c)
    /\ UNCHANGED <<procVars, logVars, item_count, mutexes, ops, flushes, overlapped>>

\* erase: return false, or items.erase(it) with fetch_sub still to come
Remove(c) ==
    /\ At(c, "remove")
    /\ IF BucketFind(buckets[BucketOf(Cur(c))], KeyOf(Cur(c))) = 0
       THEN /\ reply' = [reply EXCEPT ![c] = Response("NOT_FOUND")]
            /\ todo' = [todo EXCEPT ![c] = Tail(Tail(@))]
            /\ UNCHANGED buckets
       ELSE /\ buckets' = [buckets EXCEPT
                  ![BucketOf(Cur(c))] = RemoveAt(@, BucketFind(@, KeyOf(Cur(c))))]
            /\ reply' = [reply EXCEPT ![c] = Response("OK")]
            /\ Done(c)
    /\ UNCHANGED <<procVars, logVars, item_count, mutexes, ops, flushes, overlapped>>

\* item_count.fetch_sub(1)
FetchSub(c) ==
    /\ At(c, "fetch_sub")
    /\ item_count' = U64Dec(item_count)
    /\ Done(c)
    /\ UNCHANGED <<procVars, logVars, buckets, mutexes, reply, ops, flushes, overlapped>>

\* find: value = it->second
FindItem(c) ==
    /\ At(c, "find")
    /\ reply' = [reply EXCEPT ![c] =
                   IF BucketFind(buckets[BucketOf(Cur(c))], KeyOf(Cur(c))) = 0
                   THEN Response("NOT_FOUND")
                   ELSE [value |-> buckets[BucketOf(Cur(c))][
                            BucketFind(buckets[BucketOf(Cur(c))], KeyOf(Cur(c)))][2],
                         status |-> "VALUE"]]
    /\ Done(c)
    /\ UNCHANGED <<procVars, logVars, mapVars, mutexes, ops, flushes, overlapped>>

\* exists: bucket.find(key) != bucket.items.end()
ExistsItem(c) ==
    /\ At(c, "exists")
    /\ reply' = [reply EXCEPT ![c] =
                   Response(IF BucketFind(buckets[BucketOf(Cur(c))], KeyOf(Cur(c))) # 0
                            THEN "true" ELSE "false")]
    /\ Done(c)
    /\ UNCHANGED <<procVars, logVars, mapVars, mutexes, ops, flushes, overlapped>>

\* size(): item_count.load()
LoadSize(c) ==
    /\ At(c, "size")
    /\ reply' = [reply EXCEPT ![c] = [value |-> item_count, status |-> "SIZE"]]
    /\ Done(c)
    /\ UNCHANGED <<procVars, logVars, mapVars, mutexes, ops, flushes, overlapped>>

\* getStatistics: stats.item_count = size()
StatsSize(c) ==
    /\ At(c, "stats_size")
    /\ reply' = [reply EXCEPT ![c] = [value |-> <<item_count>>, status |-> "STATS"]]
    /\ Done(c)
    /\ UNCHANGED <<procVars, logVars, mapVars, mutexes, ops, flushes, overlapped>>

\* getStatistics: stats.bucket_sizes.push_back(bucket->items.size())
CountItems(c) ==
    /\ At(c, "count_items")
    /\ reply' = [reply EXCEPT ![c].value = Append(@, Len(buckets[BucketOf(Cur(c))]))]
    /\ Done(c)
    /\ UNCHANGED <<procVars, logVars, mapVars, mutexes, ops, flushes, overlapped>>

\* for_each as it would be if it showed the visitor each item twice
VisitTwice(c) ==
    /\ At(c, "visit")
    /\ reply' = [reply EXCEPT ![c].value =
                    @ \o buckets[BucketOf(Cur(c))] \o buckets[BucketOf(Cur(c))]]
    /\ Done(c)
    /\ UNCHANGED <<procVars, logVars, mapVars, mutexes, ops, flushes, overlapped>>

\* for_each: visitor(item.first, item.second) for the items of the bucket
Visit(c) ==
    /\ At(c, "visit")
    /\ reply' = [reply EXCEPT ![c].value = @ \o buckets[BucketOf(Cur(c))]]
    /\ Done(c)
    /\ UNCHANGED <<procVars, logVars, mapVars, mutexes, ops, flushes, overlapped>>

\* clear: bucket->items.clear()
ClearItems(c) ==
    /\ At(c, "clear_items")
    /\ buckets' = [buckets EXCEPT ![BucketOf(Cur(c))] = <<>>]
    /\ Done(c)
    /\ UNCHANGED <<procVars, logVars, item_count, mutexes, reply, ops, flushes, overlapped>>

\* clear: item_count.store(0)
StoreZero(c) ==
    /\ At(c, "store_zero")
    /\ item_count' = Zeros(WordSize)
    /\ Done(c)
    /\ UNCHANGED <<procVars, logVars, buckets, mutexes, reply, ops, flushes, overlapped>>

\* the body of writeEntry; when it returns false processCommand returns the
\* WAL error and the map is not called
WalAppend(c) ==
    /\ \/ At(c, "write_put")
       \/ At(c, "write_delete")
    /\ \E ts \in Timestamps :
       \E r \in {writeEntry(wal, file,
                            IF OpOf(Cur(c)) = "write_put" THEN OpPUT ELSE OpDELETE,
                            KeyOf(Cur(c)), ValueOf(Cur(c)), ts)} :
        /\ wal' = r.wal
        /\ file' = r.file
        /\ IF r.ret
           THEN Done(c) /\ UNCHANGED reply
           ELSE /\ todo' = [todo EXCEPT ![c] = <<Call("unlock_file")>>]
                /\ reply' = [reply EXCEPT ![c] = Response(WalError)]
    /\ UNCHANGED <<procVars, stable, base, mapVars, mutexes, ops, flushes, overlapped>>

\* the body of WriteAheadLog::clear; processCommand answers OK
WalRemove(c) ==
    /\ At(c, "wal_clear")
    /\ \E r \in {clear(wal, file)} :
        /\ wal' = r.wal
        /\ file' = r.file
    /\ stable' = 0
    /\ base' = 0
    /\ reply' = [reply EXCEPT ![c] = Response("OK")]
    /\ Done(c)
    /\ UNCHANGED <<procVars, mapVars, mutexes, ops, flushes, overlapped>>

\* the next call of thread c, whichever it is
Step(c) ==
    \/ Lock(c)
    \/ Unlock(c)
    \/ LockShared(c)
    \/ UnlockShared(c)
    \/ LockFile(c)
    \/ UnlockFile(c)
    \/ Emplace(c)
    \/ FetchAdd(c)
    \/ Remove(c)
    \/ FetchSub(c)
    \/ FindItem(c)
    \/ ExistsItem(c)
    \/ LoadSize(c)
    \/ StatsSize(c)
    \/ CountItems(c)
    \/ Visit(c)
    \/ ClearItems(c)
    \/ StoreZero(c)
    \/ WalAppend(c)
    \/ WalRemove(c)

LockNext ==
    \/ Construct
    \/ Start
    \/ \E c \in Clients, k \in Keys, v \in LockValues : Put(c, k, v)
    \/ \E c \in Clients, k \in Keys : Delete(c, k)
    \/ \E c \in Clients, k \in Keys : Find(c, k)
    \/ \E c \in Clients, k \in Keys : Exists(c, k)
    \/ \E c \in Clients : Size(c)
    \/ \E c \in Clients : Stats(c)
    \/ \E c \in Clients : Flush(c)
    \/ \E c \in Clients : ForEach(c)
    \/ \E c \in Clients : Step(c)

\* a thread that can make its next call makes it: the scheduler runs every
\* thread, and a mutex that stays free is given to a thread waiting for it
LockSpec == Init /\ [][LockNext]_vars /\ \A c \in Clients : WF_vars(Step(c))

(***************************************************************************)
(* Construction at the grain of its lock and unlock calls.  The thread of  *)
(* main() constructs the map and the log and runs recoverFromWAL: replay   *)
(* takes file_mutex, reads the records and calls store.insert or           *)
(* store.erase for each, and returns; start() comes after the constructor. *)
(***************************************************************************)
RECURSIVE CallbackCalls(_, _)
\* insert_func and delete_func, for each record replay applies, from the i-th
CallbackCalls(calls, i) ==
    IF i > Len(calls) THEN <<>>
    ELSE (IF calls[i].f = "insert"
          THEN InsertCalls(calls[i].key, calls[i].value)
          ELSE EraseCalls(calls[i].key)) \o CallbackCalls(calls, i + 1)

\* WriteAheadLog::replay on the file f, its locals holding g: lock_guard, the
\* callbacks, and the return that ends the lock_guard
ReplayCalls(w, f, g) ==
    <<Call("lock_file")>> \o CallbackCalls(replay(w, f, g).calls, 1)
        \o <<Instr("return", 0, <<>>, g)>>

\* the constructing thread is at a call of this kind
MainAt(op) == ~alive /\ todo[Main] # <<>> /\ OpOf(Cur(Main)) = op

\* what no call of the constructing thread changes
bootVars == <<sync_mode, sentry_fails, alive, running, restarts, boot, pc, key,
              value, idx, reply, ops, flushes, overlapped>>

\* KVServer::KVServer up to the call of wal.replay: store and wal constructed
Open ==
    /\ ~alive /\ todo[Main] = <<>>
    /\ wal' = recoverSequenceNumber(ensureOpen(ClosedLog), file)
    /\ \E g \in Garbage :
        todo' = [todo EXCEPT ![Main] =
                    ReplayCalls(recoverSequenceNumber(ensureOpen(ClosedLog), file),
                                file, g)]
    /\ buckets' = EmptyBuckets
    /\ item_count' = Zeros(WordSize)
    /\ base' = Len(file)
    /\ boot' = "none"
    /\ running' = FALSE
    /\ pc' = Idle /\ key' = NoKeys /\ value' = NoKeys /\ reply' = NoReply
    /\ idx' = [c \in Clients |-> 0]
    /\ flushes' = "none" /\ overlapped' = FALSE
    /\ UNCHANGED <<sync_mode, sentry_fails, file, stable, alive, ops, restarts, mutexes>>

\* replay: std::lock_guard lock(file_mutex)
MainLockFile ==
    /\ MainAt("lock_file")
    /\ mutexes.file_mutex = Unlocked
    /\ mutexes' = [mutexes EXCEPT !.file_mutex.owner = Main]
    /\ Done(Main)
    /\ UNCHANGED <<bootVars, logVars, mapVars>>

\* insert_func, delete_func: std::unique_lock lock(bucket.mutex)
MainLock ==
    /\ MainAt("lock")
    /\ mutexes.mutex[BucketOf(Cur(Main))] = Unlocked
    /\ mutexes' = [mutexes EXCEPT !.mutex[BucketOf(Cur(Main))].owner = Main]
    /\ Done(Main)
    /\ UNCHANGED <<bootVars, logVars, mapVars>>

\* ~unique_lock
MainUnlock ==
    /\ MainAt("unlock")
    /\ mutexes' = [mutexes EXCEPT !.mutex[BucketOf(Cur(Main))].owner = 0]
    /\ Done(Main)
    /\ UNCHANGED <<bootVars, logVars, mapVars>>

\* insert_func: store.insert assigns or emplaces
MainEmplace ==
    /\ MainAt("emplace")
    /\ IF BucketFind(buckets[BucketOf(Cur(Main))], KeyOf(Cur(Main))) # 0
       THEN /\ buckets' = [buckets EXCEPT
                  ![BucketOf(Cur(Main))][BucketFind(buckets[BucketOf(Cur(Main))],
                                                    KeyOf(Cur(Main)))] =
                      <<KeyOf(Cur(Main)), ValueOf(Cur(Main))>>]
            /\ todo' = [todo EXCEPT ![Main] = Tail(Tail(@))]
       ELSE /\ buckets' = [buckets EXCEPT
                  ![BucketOf(Cur(Main))] = Append(@, <<KeyOf(Cur(Main)), ValueOf(Cur(Main))>>)]
            /\ Done(Main)
    /\ UNCHANGED <<bootVars, logVars, item_count, mutexes>>

\* insert_func: item_count.fetch_add(1)
MainFetchAdd ==
    /\ MainAt("fetch_add")
    /\ item_count' = U64Inc(item_count)
    /\ Done(Main)
    /\ UNCHANGED <<bootVars, logVars, buckets, mutexes>>

\* delete_func: store.erase finds nothing or erases
MainRemove ==
    /\ MainAt("remove")
    /\ IF BucketFind(buckets[BucketOf(Cur(Main))], KeyOf(Cur(Main))) = 0
       THEN /\ todo' = [todo EXCEPT ![Main] = Tail(Tail(@))]
            /\ UNCHANGED buckets
       ELSE /\ buckets' = [buckets EXCEPT
                  ![BucketOf(Cur(Main))] = RemoveAt(@, BucketFind(@, KeyOf(Cur(Main))))]
            /\ Done(Main)
    /\ UNCHANGED <<bootVars, logVars, item_count, mutexes>>

\* delete_func: item_count.fetch_sub(1)
MainFetchSub ==
    /\ MainAt("fetch_sub")
    /\ item_count' = U64Dec(item_count)
    /\ Done(Main)
    /\ UNCHANGED <<bootVars, logVars, buckets, mutexes>>

\* replay returns (or an exception leaves it): ~lock_guard; recoverFromWAL and
\* the constructor return, or the exception ends the process
MainReturn ==
    /\ MainAt("return")
    /\ mutexes' = [mutexes EXCEPT !.file_mutex.owner = 0]
    /\ todo' = [todo EXCEPT ![Main] = <<>>]
    /\ \E r \in {replay(wal, file, ValueOf(Cur(Main)))} :
        IF r.threw
        THEN /\ boot' = "threw"
             /\ wal' = ClosedLog
             /\ buckets' = EmptyBuckets
             /\ item_count' = Zeros(WordSize)
             /\ UNCHANGED <<alive, file>>
        ELSE /\ boot' = IF "failbit" \in r.wal.iostate THEN "torn" ELSE "clean"
             /\ alive' = TRUE
             /\ wal' = r.wal
             /\ file' = r.file
             /\ UNCHANGED mapVars
    /\ UNCHANGED <<sync_mode, sentry_fails, running, restarts, pc, key, value, idx,
                   reply, ops, flushes, overlapped, stable, base>>

\* the next call of the constructing thread
MainStep ==
    \/ MainLockFile
    \/ MainLock
    \/ MainUnlock
    \/ MainEmplace
    \/ MainFetchAdd
    \/ MainRemove
    \/ MainFetchSub
    \/ MainReturn

\* the next call of a handler thread that is in a PUT, a DELETE or a FLUSH
WriteStep(c) ==
    \/ Lock(c)
    \/ Unlock(c)
    \/ LockFile(c)
    \/ UnlockFile(c)
    \/ Emplace(c)
    \/ FetchAdd(c)
    \/ Remove(c)
    \/ FetchSub(c)
    \/ ClearItems(c)
    \/ StoreZero(c)
    \/ WalAppend(c)
    \/ WalRemove(c)

\* signalHandler, once every handler thread has answered its command
Exit == (\A c \in Clients : todo[c] = <<>>) /\ Shutdown

BootNext ==
    \/ Open
    \/ MainStep
    \/ Start
    \/ \E c \in Clients, k \in Keys, v \in LockValues : Put(c, k, v)
    \/ \E c \in Clients, k \in Keys : Delete(c, k)
    \/ \E c \in Clients : Flush(c)
    \/ \E c \in Clients : WriteStep(c)
    \/ Exit

BootSpec == Init /\ [][BootNext]_vars

(***************************************************************************)
(* FLUSH when the log file cannot be removed (it is gone, or its directory *)
(* does not allow it): std::remove fails and clear() returns false.        *)
(***************************************************************************)
\* clear when std::remove fails: log_file.close() has handed the filebuf's
\* bytes over, and neither the counter is reset nor the file reopened
clearFails(w, f) ==
    [wal |-> [w EXCEPT !.is_open = FALSE, !.pending = <<>>],
     file |-> f \o w.pending, ret |-> FALSE]

\* processCommand, "FLUSH": wal.clear() returns false; return "OK"
FlushWalFails(c) ==
    /\ alive /\ pc[c] = "wal_clear"
    /\ \E r \in {clearFails(wal, file)} :
        /\ wal' = r.wal
        /\ file' = r.file
    /\ reply' = [reply EXCEPT ![c] = Response("OK")]
    /\ pc' = [pc EXCEPT ![c] = "idle"]
    /\ UNCHANGED <<sync_mode, sentry_fails, stable, alive, running, buckets,
                   item_count, key, value, idx, ops, restarts, boot, flushes,
                   overlapped, base, mutexes, todo>>

FlushNext ==
    \/ Construct
    \/ Start
    \/ \E c \in Clients, k \in Keys, v \in Values, ts \in Timestamps : PutWal(c, k, v, ts)
    \/ \E c \in Clients : PutInsert(c)
    \/ \E c \in Clients, k \in Keys : Get(c, k)
    \/ \E c \in Clients : FlushStart(c)
    \/ \E c \in Clients : ClearBucket(c)
    \/ \E c \in Clients : ClearCount(c)
    \/ \E c \in Clients : FlushWal(c)
    \/ \E c \in Clients : FlushWalFails(c)
    \/ Shutdown

FlushSpec == Init /\ [][FlushNext]_vars

(***************************************************************************)
(* processCommand from the line handleConnection hands it: the line is     *)
(* read through a std::istringstream into op_str, key and value, the sizes *)
(* are checked, and the operation is carried out.  A line is the sequence  *)
(* of its bytes.                                                           *)
(***************************************************************************)
\* std::isspace in the "C" locale
IsSpace(ch) == ch \in {9, 10, 11, 12, 13, 32}

\* '"' and '\''
Quotes == {34, 39}

RECURSIVE SkipSpace(_, _)
\* the first place from i on that holds no white space
SkipSpace(s, i) == IF i <= Len(s) /\ IsSpace(s[i]) THEN SkipSpace(s, i + 1) ELSE i

RECURSIVE WordEnd(_, _)
\* the first place from i on that holds white space
WordEnd(s, i) == IF i <= Len(s) /\ ~IsSpace(s[i]) THEN WordEnd(s, i + 1) ELSE i

RECURSIVE DelimAt(_, _, _)
\* the first place from i on that holds the byte d
DelimAt(s, i, d) == IF i <= Len(s) /\ s[i] # d THEN DelimAt(s, i + 1, d) ELSE i

\* the istringstream: the place it reads next and its state
Stream(i, st) == [iostate |-> st, pos |-> i]

\* a read that found the stream not good(): failbit, nothing read
Unread(in) == [str |-> <<>>, in |-> [in EXCEPT !.iostate = @ \cup {"failbit"}]]

\* the word from i to j - 1, the stream left at j
WordFrom(s, i, j) ==
    IF i > Len(s) THEN [str |-> <<>>, in |-> Stream(i, {"eofbit", "failbit"})]
    ELSE [str |-> SubSeq(s, i, j - 1),
          in |-> Stream(j, IF j > Len(s) THEN {"eofbit"} ELSE {})]

WordAt(s, i) == WordFrom(s, i, WordEnd(s, i))

\* iss >> str
ExtractWord(s, in) ==
    IF in.iostate # {} THEN Unread(in) ELSE WordAt(s, SkipSpace(s, in.pos))

\* the stream after white space was skipped up to place i
SkippedTo(s, i) == Stream(i, IF i > Len(s) THEN {"eofbit"} ELSE {})

\* iss >> std::ws; on a stream that is not good() a library whose ws
\* constructs a sentry sets failbit, an older one does not
Ws(s, in, sentry) ==
    IF in.iostate # {}
    THEN IF sentry THEN [in EXCEPT !.iostate = @ \cup {"failbit"}] ELSE in
    ELSE SkippedTo(s, SkipSpace(s, in.pos))

\* iss.peek(): the next byte, or EOF (-1)
Peek(s, in) ==
    IF in.iostate # {} THEN [ch |-> -1, in |-> [in EXCEPT !.iostate = @ \cup {"failbit"}]]
    ELSE IF in.pos > Len(s) THEN [ch |-> -1, in |-> Stream(in.pos, {"eofbit"})]
    ELSE [ch |-> s[in.pos], in |-> in]

\* the bytes from i up to the delimiter found at j, which is consumed
LineFrom(s, i, j) ==
    [str |-> SubSeq(s, i, j - 1),
     in |-> IF j <= Len(s) THEN Stream(j + 1, {})
            ELSE Stream(j, IF j = i THEN {"eofbit", "failbit"} ELSE {"eofbit"})]

\* std::getline(iss, str, d)
GetLine(s, in, d) ==
    IF in.iostate # {} THEN Unread(in) ELSE LineFrom(s, in.pos, DelimAt(s, in.pos, d))

\* the key: up to the closing quote if it starts with a quote, else a word
CommandKey(s, pk) ==
    IF pk.ch \in Quotes THEN GetLine(s, Stream(pk.in.pos + 1, {}), pk.ch)
    ELSE ExtractWord(s, pk.in)

\* "Trim quotes from value if present"
TrimQuotes(v) ==
    IF v # <<>> /\ v[1] \in Quotes /\ v[Len(v)] = v[1] THEN SubSeq(v, 2, Len(v) - 1)
    ELSE v

\* what processCommand has read when it comes to validate
Parsed(ok, op, k, v) == [ok |-> ok, op_str |-> op, key |-> k, value |-> v]

\* the value is the rest of the line
ParseValue(s, sentry, op, k) ==
    Parsed(TRUE, op, k.str, TrimQuotes(GetLine(s, Ws(s, k.in, sentry), 10).str))

\* if (!(iss >> op_str >> std::ws)) return "ERROR Invalid command format"
ParseKey(s, sentry, op, in) ==
    IF "failbit" \in in.iostate THEN Parsed(FALSE, op, <<>>, <<>>)
    ELSE ParseValue(s, sentry, op, CommandKey(s, Peek(s, in)))

ParseOp(s, sentry, r) == ParseKey(s, sentry, r.str, Ws(s, r.in, sentry))

Parse(s, sentry) == ParseOp(s, sentry, ExtractWord(s, Stream(1, {})))

\* "PUT", "GET", "DELETE", "EXISTS", "SIZE", "PING", "FLUSH", "STATS"
StrPUT == <<80, 85, 84>>
StrGET == <<71, 69, 84>>
StrDELETE == <<68, 69, 76, 69, 84, 69>>
StrEXISTS == <<69, 88, 73, 83, 84, 83>>
StrSIZE == <<83, 73, 90, 69>>
StrPING == <<80, 73, 78, 71>>
StrFLUSH == <<70, 76, 85, 83, 72>>
StrSTATS == <<83, 84, 65, 84, 83>>

\* what processCommand returns and leaves: the reply, the map, the log
Outcome(r, m, w, f) == [reply |-> r, store |-> m, wal |-> w, file |-> f]

\* "PUT": writeEntry, then insert and "OK", or "ERROR WAL write failed"
DoPut(m, f, k, v, r) ==
    IF r.ret THEN Outcome(Response("OK"), MapInsert(m, k, v).store, r.wal, r.file)
    ELSE Outcome(Response(WalError), m, r.wal, r.file)

\* "DELETE": writeEntry, then erase and "OK" or "NOT_FOUND"
DoDelete(m, f, k, r) ==
    IF r.ret
    THEN Outcome(Response(IF MapErase(m, k).ret THEN "OK" ELSE "NOT_FOUND"),
                 MapErase(m, k).store, r.wal, r.file)
    ELSE Outcome(Response(WalError), m, r.wal, r.file)

\* "GET" as it would be if a read took a sequence number of the log
DoGetTakesSeq(m, w, f, r) ==
    Outcome(IF r[1] THEN [value |-> r[2], status |-> "VALUE"] ELSE Response("NOT_FOUND"),
            m, [w EXCEPT !.sequence_number = U64Inc(@)], f)

\* "GET"
DoGet(m, w, f, r) ==
    Outcome(IF r[1] THEN [value |-> r[2], status |-> "VALUE"] ELSE Response("NOT_FOUND"),
            m, w, f)

\* "FLUSH": store.clear(); wal.clear(); "OK"
DoFlush(r) ==
    Outcome(Response("OK"), Store(EmptyBuckets, Zeros(WordSize)), r.wal, r.file)

\* "Process operation": the branch for op_str
Dispatch(p, m, w, f, ts) ==
    IF p.op_str = StrPUT THEN DoPut(m, f, p.key, p.value, writeEntry(w, f, OpPUT, p.key, p.value, ts))
    ELSE IF p.op_str = StrGET THEN DoGet(m, w, f, MapFind(m, p.key))
    ELSE IF p.op_str = StrDELETE THEN DoDelete(m, f, p.key, writeEntry(w, f, OpDELETE, p.key, <<>>, ts))
    ELSE IF p.op_str = StrEXISTS
         THEN Outcome(Response(IF MapFind(m, p.key)[1] THEN "true" ELSE "false"), m, w, f)
    ELSE IF p.op_str = StrSIZE THEN Outcome([value |-> m.item_count, status |-> "SIZE"], m, w, f)
    ELSE IF p.op_str = StrPING THEN Outcome(Response("PONG"), m, w, f)
    ELSE IF p.op_str = StrFLUSH THEN DoFlush(clear(w, f))
    ELSE IF p.op_str = StrSTATS THEN Outcome([value |-> <<m.item_count>>, status |-> "STATS"], m, w, f)
    ELSE Outcome(Response("ERROR Unknown command"), m, w, f)

\* the validation as it would be if it turned away the largest sizes too
ValidateBelowMax(p, m, w, f, ts) ==
    IF ~p.ok THEN Outcome(Response("ERROR Invalid command format"), m, w, f)
    ELSE IF Len(p.key) >= max_key_size THEN Outcome(Response("ERROR Key too large"), m, w, f)
    ELSE IF Len(p.value) >= max_value_size
         THEN Outcome(Response("ERROR Value too large"), m, w, f)
    ELSE Dispatch(p, m, w, f, ts)

\* "Validate sizes", then the operation
Validate(p, m, w, f, ts) ==
    IF ~p.ok THEN Outcome(Response("ERROR Invalid command format"), m, w, f)
    ELSE IF Len(p.key) > max_key_size THEN Outcome(Response("ERROR Key too large"), m, w, f)
    ELSE IF Len(p.value) > max_value_size
         THEN Outcome(Response("ERROR Value too large"), m, w, f)
    ELSE Dispatch(p, m, w, f, ts)

\* KVServer::processCommand on the line s
processCommand(s, sentry, m, w, f, ts) == Validate(Parse(s, sentry), m, w, f, ts)

\* n bytes ch
Rep(ch, n) == [i \in 1..n |-> ch]

\* the keys and values the clients of this specification send: "", "a", "aa", ...
\* up to one byte more than the server allows
CmdKeys == {Rep(97, n) : n \in 0..(max_key_size + 1)}
CmdValues == {Rep(49, n) : n \in 0..(max_value_size + 1)}

\* KVClient::put, get, del: the line sent, without its newline
Quoted(x) == <<34>> \o x \o <<34>>
PutLine(k, v) == StrPUT \o <<32>> \o Quoted(k) \o <<32>> \o Quoted(v)
GetLine_(k) == StrGET \o <<32>> \o Quoted(k)
DeleteLine(k) == StrDELETE \o <<32>> \o Quoted(k)

\* lines typed by hand: a command with nothing after it, with a return
\* before the newline, and a PUT without quotes
TypedLines ==
    {StrFLUSH, StrFLUSH \o <<13>>, StrPUT, StrPUT \o <<32>>, <<>>,
     StrPUT \o <<32, 97, 32, 49>>, StrSIZE \o <<13>>}

Lines ==
    {PutLine(k, v) : k \in CmdKeys, v \in CmdValues}
        \cup {GetLine_(k) : k \in CmdKeys} \cup {DeleteLine(k) : k \in CmdKeys}
        \cup TypedLines

\* a handler can take a line: the server runs and no other command is under way
CanProcess ==
    /\ alive /\ running
    /\ \A d \in Clients : pc[d] = "idle"
    /\ ops < MaxOps

\* what processCommand returns and leaves when it runs on s in this state
Processed(s, sentry, ts) ==
    processCommand(s, sentry, Store(buckets, item_count), wal, file, ts)

\* handleConnection: a line is read, processCommand runs on it, the response
\* is written; one handler at a time
Process(c, s, sentry) ==
    /\ CanProcess
    /\ ops' = ops + 1
    /\ \E ts \in Timestamps :
       \E r \in {Processed(s, sentry, ts)} :
            /\ reply' = [reply EXCEPT ![c] = r.reply]
            /\ buckets' = r.store.buckets
            /\ item_count' = r.store.item_count
            /\ wal' = r.wal
            /\ file' = r.file
            /\ stable' = IF Len(r.file) < stable THEN 0 ELSE stable
            /\ base' = IF Len(r.file) < base THEN 0 ELSE base
    /\ UNCHANGED <<sync_mode, sentry_fails, alive, running, pc, key, value, idx,
                   restarts, boot, flushes, overlapped, mutexes, todo>>

CmdNext ==
    \/ Construct
    \/ Start
    \/ \E c \in Clients, s \in Lines, sentry \in BOOLEAN : Process(c, s, sentry)

CmdSpec == Init /\ [][CmdNext]_vars

(***************************************************************************)
(* The map on its own, its methods called one after the other, as the      *)
(* tests of ConcurrentHashMap call them.                                   *)
(***************************************************************************)
\* a method has run to its end: the map it leaves and what it returned to c
Returned(c, m, r) ==
    /\ ~alive
    /\ buckets' = m.buckets
    /\ item_count' = m.item_count
    /\ reply' = [reply EXCEPT ![c] = r]
    /\ UNCHANGED <<sync_mode, sentry_fails, file, stable, alive, running, wal, pc,
                   key, value, idx, ops, restarts, boot, flushes, overlapped,
                   base, mutexes, todo>>

\* map.insert(k, v)
SeqInsert(c, k, v) ==
    \E r \in {MapInsert(Store(buckets, item_count), k, v)} :
        Returned(c, r.store, Response(IF r.ret THEN "true" ELSE "false"))

\* map.erase(k)
SeqErase(c, k) ==
    \E r \in {MapErase(Store(buckets, item_count), k)} :
        Returned(c, r.store, Response(IF r.ret THEN "true" ELSE "false"))

\* map.find(k, value)
SeqFind(c, k) ==
    \E r \in {MapFind(Store(buckets, item_count), k)} :
        Returned(c, Store(buckets, item_count),
                 IF r[1] THEN [value |-> r[2], status |-> "VALUE"]
                 ELSE Response("false"))

\* map.exists(k)
SeqExists(c, k) ==
    Returned(c, Store(buckets, item_count),
             Response(IF MapFind(Store(buckets, item_count), k)[1]
                      THEN "true" ELSE "false"))

\* map.size()
SeqSize(c) ==
    Returned(c, Store(buckets, item_count), [value |-> item_count, status |-> "SIZE"])

MapNext ==
    \/ \E c \in Clients, k \in Keys, v \in Values : SeqInsert(c, k, v)
    \/ \E c \in Clients, k \in Keys : SeqErase(c, k)
    \/ \E c \in Clients, k \in Keys : SeqFind(c, k)
    \/ \E c \in Clients, k \in Keys : SeqExists(c, k)
    \/ \E c \in Clients : SeqSize(c)

MapSpec == Init /\ [][MapNext]_vars

\* ConcurrentHashMap::getStatistics on a map no other thread is changing:
\* item_count is size(), bucket_sizes the length of every bucket's list, and
\* used_buckets the number of sizes above 0, which utilization divides by
\* bucket_count and load_factor is item_count / bucket_count
getStatistics(m) ==
    [item_count |-> m.item_count,
     bucket_count |-> NumBuckets,
     bucket_sizes |-> [b \in BucketIds |-> Len(m.buckets[b])],
     used_buckets |-> Cardinality({b \in BucketIds : Len(m.buckets[b]) > 0})]

(***************************************************************************)
(* The log and the map as the specification speaks of them.                *)
(***************************************************************************)
\* the bytes appended to the log: the file, then what the filebuf still holds
LogOf(f, w) == f \o w.pending

Log == LogOf(file, wal)

\* no command is in flight
Quiescent == \A c \in Clients : pc[c] = "idle"

\* the <<key, value>> pairs a map holds
Contents(b) == UNION {{b[i][j] : j \in 1..Len(b[i])} : i \in DOMAIN b}

\* locals that hold zero where nothing is read into them
Zeroed == [op |-> 1, key_size |-> 0, value_size |-> 0]

RECURSIVE CompleteRecords(_, _)
\* the record read into e if all of its bytes were there, and those after it
CompleteRecord(f, e) ==
    IF ~e.cur.good THEN <<>>
    ELSE <<[op |-> e.op_val[1], key |-> e.key, value |-> e.value]>>
         \o CompleteRecords(f, e.cur.pos)

\* the records of f from position pos on that are there in full, in file order
CompleteRecords(f, pos) ==
    IF pos > Len(f) THEN <<>> ELSE CompleteRecord(f, ReadEntry(f, pos, Zeroed))

RECURSIVE Implied(_, _, _)
\* the pairs a dictionary holds after the records i.. of recs, given those before
Implied(recs, i, m) ==
    IF i > Len(recs) THEN m
    ELSE Implied(recs, i + 1,
                 IF recs[i].op = OpPUT
                 THEN {p \in m : p[1] # recs[i].key}
                      \cup {<<recs[i].key, recs[i].value>>}
                 ELSE IF recs[i].op = OpDELETE
                 THEN {p \in m : p[1] # recs[i].key}
                 ELSE m)

\* in this step handler c's writeEntry returned true
Acked(c) == pc[c] = "idle" /\ pc'[c] \in Writing

\* the record that append was given, under any clock reading
RecordsOf(c) ==
    {Encode(wal.sequence_number, ts,
            IF pc'[c] = "put_insert" THEN OpPUT ELSE OpDELETE, key'[c], value'[c]) :
        ts \in Timestamps}

\* in this step the log grew by exactly the record handler c appended
AppendedBy(c) == \E rec \in RecordsOf(c) : LogOf(file', wal') = Log \o rec

\* in this step a PUT or DELETE ended because writeEntry returned false
AppendFailed ==
    /\ ops' = ops + 1
    /\ pc' = pc
    /\ wal' # wal

(***************************************************************************)
(* The claims.                                                             *)
(***************************************************************************)
\* C1: with clients issuing PUT and DELETE concurrently and no FLUSH among
\* them, once every call has returned, replaying the log from offset 0 onto an
\* empty map yields exactly the live map (its pairs and its size); so of two
\* concurrent PUTs of one key the map holds the value whose record is later in
\* the file.  Stated for the engines whose log stream accepts writes.
C1_ReplayYieldsLiveMap ==
    (alive /\ Quiescent /\ flushes # "raced" /\ Good(wal)) =>
        \A g \in Garbage : \E r \in {recoverFromWAL(Log, g)} :
            /\ ~r.threw
            /\ Contents(r.store.buckets) = Contents(buckets)
            /\ r.store.item_count = item_count

\* C2: after any sequence of acknowledged PUTs and DELETEs executed one at a
\* time against a fresh engine, a new engine opened on the same log file holds
\* the same keys, the same value for each key, and the same size.
C2_RestartYieldsSameMap ==
    (alive /\ Quiescent /\ restarts = 0 /\ flushes = "none" /\ ~overlapped) =>
        \A g \in Garbage : \E r \in {recoverFromWAL(Log, g)} :
            /\ ~r.threw
            /\ Contents(r.store.buckets) = Contents(buckets)
            /\ r.store.item_count = item_count

\* C3: every key present in the map has a PUT record in the log that is not
\* followed in the file by a DELETE record for the same key.  Stated for the
\* states in which no command is in flight, no FLUSH has overlapped a write,
\* and the log stream accepts writes.
C3_KeysHaveUndeletedPut ==
    (alive /\ Quiescent /\ flushes # "raced" /\ Good(wal)) =>
        \E recs \in {CompleteRecords(Log, 1)} :
            \A p \in Contents(buckets) :
                \E i \in 1..Len(recs) :
                    /\ recs[i].op = OpPUT
                    /\ recs[i].key = p[1]
                    /\ \A j \in (i + 1)..Len(recs) :
                        ~(recs[j].op = OpDELETE /\ recs[j].key = p[1])

\* C4: durability before visibility: the map holds (and GET returns) a value v
\* for a key k only if a complete PUT(k, v) record has been appended to the log.
C4_VisibleOnlyIfLogged ==
    (alive /\ flushes # "raced") =>
        \E recs \in {CompleteRecords(Log, 1)} :
            \A p \in Contents(buckets) :
                \E i \in 1..Len(recs) :
                    /\ recs[i].op = OpPUT
                    /\ recs[i].key = p[1]
                    /\ recs[i].value = p[2]

\* C5: when the append of a PUT or DELETE fails, the engine replies with the WAL
\* error to the client that sent it, and the map (its buckets and its size
\* counter) is what it was before the operation.
C5_FailedAppendLeavesMap ==
    [][AppendFailed =>
        /\ \E c \in Clients :
            /\ reply'[c] = Response(WalError)
            /\ \A d \in Clients \ {c} : reply'[d] = reply[d]
        /\ buckets' = buckets
        /\ item_count' = item_count]_vars

\* C5, its case: a client has been sent the WAL error
C5_Witness == \E c \in Clients : reply[c] = Response(WalError)

\* C6: writeEntry reports success only if all the bytes of the record have been
\* appended to the log, in every state the log stream can be in (fresh file,
\* reopened file, just after replay has read the file to its end).
C6_SuccessMeansAppended ==
    [][\A c \in Clients : Acked(c) => AppendedBy(c)]_vars

\* C7: with sync mode on, when an append returns success the record has been
\* forced from the user buffer through the operating system to stable storage.
\* Stated for the appends whose record did enter the log.
C7_SyncReachesStableStorage ==
    [][\A c \in Clients :
        (sync_mode /\ Acked(c) /\ AppendedBy(c)) =>
            (wal'.pending = <<>> /\ stable' = Len(file'))]_vars

\* C8: with sync mode off, a write whose append returned success has left the
\* process (reached the operating system) before the acknowledgment.  Stated
\* for the appends whose record did enter the log.
C8_AsyncLeavesProcess ==
    [][\A c \in Clients :
        (~sync_mode /\ Acked(c) /\ AppendedBy(c)) => wal'.pending = <<>>]_vars

\* C9: when the last record of the log is cut short, replay succeeds and the
\* recovered map is the one the complete records alone imply: the cut record
\* causes no insert and no remove.
C9_TornTailDiscarded ==
    /\ boot # "threw"
    /\ (alive /\ ~running) =>
        /\ Contents(buckets) = Implied(CompleteRecords(file, 1), 1, {})
        /\ item_count = U64Of(Cardinality(Contents(buckets)))

\* C10: after recovery from a log with a torn tail the engine takes a PUT: it
\* is acknowledged, not refused, and its record is among those that decode from
\* the log, so that the next restart reads it.
C10_PutAfterTornRecovery ==
    (alive /\ boot = "torn" /\ flushes = "none") =>
        \A c \in Clients :
            /\ reply[c] # Response(WalError)
            /\ pc[c] = "put_insert" =>
                \E recs \in {CompleteRecords(Log, 1)} : \E i \in 1..Len(recs) :
                    recs[i] = [op |-> OpPUT, key |-> key[c], value |-> value[c]]

\* a record of f that is there in full, is followed by another such record,
\* and whose op is neither PUT nor DELETE
UnknownOpBeforeTail(f) ==
    \E recs \in {CompleteRecords(f, 1)} :
        \E i \in 1..(Len(recs) - 1) : recs[i].op \notin {OpPUT, OpDELETE}

\* C11: when a record that is not the trailing record of the log does not
\* decode (here: its op code is neither PUT nor DELETE), replay fails and the
\* engine refuses to open; it does not skip the record and go on.
C11_CorruptLogRefusesOpen ==
    [][(Construct /\ UnknownOpBeforeTail(file)) =>
        (boot' = "threw" /\ ~alive')]_vars

RECURSIVE SeqsFrom(_, _)
\* the sequence number of the record read into e if all of its bytes were
\* there, and those of the records after it
SeqOf(f, e) ==
    IF ~e.cur.good THEN <<>> ELSE <<e.seq>> \o SeqsFrom(f, e.cur.pos)

\* the sequence numbers of the records of f from position pos on that are
\* there in full, in file order
SeqsFrom(f, pos) ==
    IF pos > Len(f) THEN <<>> ELSE SeqOf(f, ReadEntry(f, pos, Zeroed))

\* C12: the sequence numbers of the records in the log are strictly increasing
\* in file order over the whole file, whatever the appends and however many
\* times the log was closed and reopened.
C12_SequenceStrictlyIncreasing ==
    \E s \in {SeqsFrom(Log, 1)} :
        \A i \in 1..(Len(s) - 1) : U64Less(s[i], s[i + 1], WordSize)

\* each number of s is one more than the number before it
Consecutive(s) == \A i \in 1..(Len(s) - 1) : s[i + 1] = U64Inc(s[i])

\* the sequence numbers of the records this log object has appended since it
\* opened or cleared the file
AppendedSeqs == SeqsFrom(Log, base + 1)

\* in this step a thread's writeEntry returned false
WalWriteFailed ==
    \E c \in Clients, op \in WalOps, k \in WalKeys, v \in WalValues, ts \in Timestamps :
        /\ WalWrite(c, op, k, v, ts)
        /\ reply'[c] = Response("false")

MaxPlusOne(s) ==
    IF s = <<>> THEN Zeros(WordSize)
    ELSE U64Inc(U64Max({s[i] : i \in 1..Len(s)}))

\* C14: after the engine has opened an existing log and replay has finished,
\* the sequence number given to the next append is the highest sequence number
\* among the records in the file plus one, and 0 for an empty file.  Stated
\* for the logs that end with a complete record.
C14_NextSequenceIsMaxPlusOne ==
    (alive /\ ~running /\ boot = "clean") =>
        wal.sequence_number = MaxPlusOne(SeqsFrom(file, 1))

\* C17: no deadlock: with threads issuing PUT, GET, DELETE, EXISTS, SIZE,
\* STATS, FLUSH and for_each, and a scheduler that lets a thread make a call
\* that stays possible, every operation that has started completes.
C17_EveryOperationCompletes ==
    \A c \in Clients : (todo[c] # <<>>) ~> (todo[c] = <<>>)

\* C17, its case: a thread is blocked in unique_lock on a bucket's mutex that
\* another thread holds
C17_Witness ==
    \E c \in Clients :
        /\ At(c, "lock")
        /\ mutexes.mutex[BucketOf(Cur(c))] # Unlocked
        /\ c \notin mutexes.mutex[BucketOf(Cur(c))].shared
        /\ mutexes.mutex[BucketOf(Cur(c))].owner # c

\* the values size() may return over a key space of Cardinality(Keys) keys
SizeRange == {U64Of(n) : n \in 0..Cardinality(Keys)}

\* C16: with threads issuing mixes of put, get, delete and contains over the
\* key space, the counter that size() returns is between 0 and the number of
\* keys in every reachable state, those in which inserts and erases are in
\* progress included, and so is every value a SIZE or STATS command has read.
C16_SizeWithinKeySpace ==
    (alive /\ flushes = "none") =>
        /\ item_count \in SizeRange
        /\ \A c \in Clients :
            /\ reply[c].status = "SIZE" => reply[c].value \in SizeRange
            /\ reply[c].status = "STATS" => reply[c].value[1] \in SizeRange

\* C16, its case: the counter stands at the number of keys while an erase has
\* taken its item out of the bucket and not yet counted down
C16_Witness ==
    /\ alive /\ flushes = "none"
    /\ item_count = U64Of(Cardinality(Keys))
    /\ \E c \in Clients : At(c, "fetch_sub")

\* the keys present in the map
KeysPresent == {p[1] : p \in Contents(buckets)}

\* the items held in the buckets, each with its place
ItemsHeld == UNION {{<<b, i>> : i \in 1..Len(buckets[b])} : b \in BucketIds}

RECURSIVE U64Plus(_, _)
\* a + n modulo 2^64
U64Plus(a, n) == IF n = 0 THEN a ELSE U64Plus(U64Inc(a), n - 1)

\* the threads whose insert (erase) has changed its bucket and has its
\* fetch_add (fetch_sub) still to make
Uncounted(op) == Cardinality({c \in Clients : At(c, op)})

\* C19: size law: with threads calling insert and erase in any interleaving and
\* no clear, no key is held twice, and the counter accounts for every insert
\* that found its key new and every erase that found its key, each exactly
\* once: counting in the calls that have changed their bucket and not yet
\* the counter, it equals the number of distinct keys present; so once all
\* calls have returned size() is the number of distinct keys present.
C19_SizeLaw ==
    (alive /\ flushes = "none") =>
        /\ Cardinality(ItemsHeld) = Cardinality(KeysPresent)
        /\ U64Plus(item_count, Uncounted("fetch_add"))
             = U64Plus(U64Of(Cardinality(KeysPresent)), Uncounted("fetch_sub"))
        /\ (\A c \in Clients : todo[c] = <<>>) =>
                item_count = U64Of(Cardinality(KeysPresent))

\* C19, its case: all the calls the bound allows have returned, one key is
\* left in the map, and among the calls was a DELETE that found no key
C19_Witness ==
    /\ alive /\ flushes = "none"
    /\ \A c \in Clients : todo[c] = <<>>
    /\ ops = MaxOps
    /\ item_count = U64Of(1)
    /\ \E c \in Clients : reply[c] = Response("OK")
    /\ \E c \in Clients : reply[c] = Response("NOT_FOUND")

\* the pairs the PUTs in flight have passed and store.insert is about to take
PairsPassed == {<<key[c], value[c]>> : c \in {d \in Clients : pc[d] = "put_insert"}}

\* C15: with threads issuing mixes of PUT, GET and DELETE over the key space,
\* every value a GET of k returns is a value some PUT passed for k: a GET
\* returns the value held under its own key, a PUT in flight holds the key
\* and value it was sent, and a pair enters the map only as the pair of a PUT
\* in flight.
C15_GetReturnsAPutValue ==
    [][/\ \A c \in Clients, k \in Keys :
            (Get(c, k) /\ reply'[c].status = "VALUE") =>
                <<k, reply'[c].value>> \in Contents(buckets)
       /\ \A c \in Clients, k \in Keys, v \in Values, ts \in Timestamps :
            (PutWal(c, k, v, ts) /\ pc'[c] = "put_insert") =>
                (key'[c] = k /\ value'[c] = v)
       /\ alive => Contents(buckets') \ Contents(buckets) \subseteq PairsPassed]_vars

\* C15, its case: a GET has returned a value while another thread's PUT or
\* DELETE was being applied
C15_Witness ==
    \E c \in Clients :
        /\ reply[c].status = "VALUE"
        /\ \E d \in Clients \ {c} : pc[d] \in Writing

\* what find(k) returns on the map as it stands
Found(k) == MapFind(Store(buckets, item_count), k)

\* in this step a PUT or a DELETE of k is applied to the map
Applied(k) == \E c \in Clients : key[c] = k /\ (PutInsert(c) \/ DelErase(c))

\* in this step a FLUSH empties a bucket
Emptied == \E c \in Clients : FlushStart(c) \/ ClearBucket(c)

\* a PUT that returns OK leaves its value under its key, a DELETE leaves its
\* key absent, and a GET returns what the map holds under its key
ReadsSeeWrites ==
    /\ \A c \in Clients :
        PutInsert(c) => MapFind(Store(buckets', item_count'), key[c]) = <<TRUE, value[c]>>
    /\ \A c \in Clients :
        DelErase(c) => ~MapFind(Store(buckets', item_count'), key[c])[1]
    /\ \A c \in Clients, k \in Keys :
        Get(c, k) => reply'[c] = IF Found(k)[1]
                                 THEN [value |-> Found(k)[2], status |-> "VALUE"]
                                 ELSE Response("NOT_FOUND")

\* C18: reads are linearized with the writes of the same key: a GET of k that
\* begins after PUT(k, v) has returned OK returns v or the value of a PUT of k
\* applied later, and NOT_FOUND only if a DELETE of k or a FLUSH was applied
\* after that PUT: what the map holds under k changes only when a PUT or
\* DELETE of k is applied or a FLUSH empties a bucket.
C18_ReadsLinearized ==
    [][(alive /\ alive') =>
        /\ ReadsSeeWrites
        /\ \A k \in Keys :
            (MapFind(Store(buckets', item_count'), k) # Found(k)) =>
                (Applied(k) \/ Emptied)]_vars

\* C18, its case: a GET has returned a value and another thread's PUT has
\* returned OK
C18_Witness ==
    \E c \in Clients :
        /\ reply[c].status = "VALUE"
        /\ \E d \in Clients \ {c} : reply[d] = Response("OK")

\* C18 as stated: NOT_FOUND only if a DELETE of k was applied after the PUT:
\* what the map holds under k changes only when a PUT or DELETE of k is applied.
C18_OnlyWritesOfTheKey ==
    [][(alive /\ alive') =>
        /\ ReadsSeeWrites
        /\ \A k \in Keys :
            (MapFind(Store(buckets', item_count'), k) # Found(k)) => Applied(k)]_vars

\* C20: I1 holds when clear() runs concurrently with insert and erase: once
\* no map operation is in progress, size() equals the number of distinct keys
\* present across all buckets.
C20_SizeLawUnderClear ==
    (alive /\ \A c \in Clients : todo[c] = <<>>) =>
        item_count = U64Of(Cardinality(KeysPresent))

\* the bucket mutexes thread c holds, exclusively or shared
Held(c) ==
    {b \in BucketIds : mutexes.mutex[b].owner = c \/ c \in mutexes.mutex[b].shared}

\* C21: in every reachable state each thread holds at most one bucket lock:
\* insert, erase, find and exists lock only the bucket of their key, and
\* clear, for_each and getStatistics release the lock of one bucket before
\* they take the lock of the next.
C21_AtMostOneBucketLock ==
    \A c \in Clients :
        /\ Cardinality(Held(c)) <= 1
        /\ \A b \in Held(c) :
            /\ todo[c] # <<>>
            /\ KeyOf(Cur(c)) # <<>> => b = getBucket(KeyOf(Cur(c)))
            /\ KeyOf(Cur(c)) = <<>> =>
                    \E i \in 1..Len(todo[c]) :
                        /\ OpOf(todo[c][i]) \in {"unlock", "unlock_shared"}
                        /\ BucketOf(todo[c][i]) = b
                        /\ \A j \in 1..(i - 1) :
                            OpOf(todo[c][j]) \notin {"lock", "lock_shared"}

\* C21, its case: a clear() has released bucket 0, holds bucket 1 and is about
\* to empty it, while another thread holds bucket 0
C21_Witness ==
    \E c \in Clients :
        /\ At(c, "clear_items") /\ Held(c) = {1}
        /\ \E d \in Clients \ {c} : Held(d) = {0}

\* C22: file_mutex and the bucket mutexes are never held together by one
\* thread: in every reachable state, recovery replay included, a thread that
\* holds file_mutex holds no bucket mutex, and a thread that holds a bucket
\* mutex does not hold file_mutex.
C22_LogAndBucketLocksApart ==
    \A t \in Threads : mutexes.file_mutex.owner = t => Held(t) = {}

\* thread t has called writeEntry and the call has not returned
InAppend(t) ==
    /\ todo[t] # <<>>
    /\ \/ OpOf(Cur(t)) \in {"write_put", "write_delete"}
       \/ /\ OpOf(Cur(t)) = "lock_file"
          /\ OpOf(todo[t][2]) \in {"write_put", "write_delete"}
       \/ /\ OpOf(Cur(t)) = "unlock_file"
          /\ Len(todo[t]) > 1
          /\ OpOf(todo[t][2]) = "lock"

Dict == Contents(buckets)

\* C24: called one after the other, the methods of the map are those of a
\* dictionary from keys to values: insert(k, v) leaves k bound to v and the
\* other keys as they were, returns true exactly if k was absent and only
\* then adds one to size; erase(k) leaves k absent, returns true exactly if k
\* was present and only then takes one from size; find(k) returns the value
\* k is bound to, exists(k) whether it is bound, size() the number of keys;
\* no key is held twice.
C24_MapIsADictionary ==
    [][/\ \A c \in Clients, k \in Keys, v \in Values :
            SeqInsert(c, k, v) =>
                /\ Dict' = {p \in Dict : p[1] # k} \cup {<<k, v>>}
                /\ reply'[c] = Response(IF k \in KeysPresent THEN "false" ELSE "true")
                /\ item_count' = IF k \in KeysPresent THEN item_count
                                 ELSE U64Inc(item_count)
       /\ \A c \in Clients, k \in Keys :
            SeqErase(c, k) =>
                /\ Dict' = {p \in Dict : p[1] # k}
                /\ reply'[c] = Response(IF k \in KeysPresent THEN "true" ELSE "false")
                /\ item_count' = IF k \in KeysPresent THEN U64Dec(item_count)
                                 ELSE item_count
       /\ \A c \in Clients, k \in Keys :
            SeqFind(c, k) =>
                /\ Dict' = Dict
                /\ IF k \in KeysPresent
                   THEN reply'[c].status = "VALUE" /\ <<k, reply'[c].value>> \in Dict
                   ELSE reply'[c] = Response("false")
       /\ \A c \in Clients, k \in Keys :
            SeqExists(c, k) =>
                /\ Dict' = Dict
                /\ reply'[c] = Response(IF k \in KeysPresent THEN "true" ELSE "false")
       /\ \A c \in Clients :
            SeqSize(c) => reply'[c].value = U64Of(Cardinality(KeysPresent))
       /\ Cardinality(ItemsHeld') = Cardinality(KeysPresent')
       /\ item_count' = U64Of(Cardinality(KeysPresent'))]_vars

\* C24, its case: a key has been inserted twice, the second insert returned
\* false, find returned the second value and the map holds one key
C24_Witness ==
    /\ ~alive
    /\ item_count = U64Of(1)
    /\ Dict = {<<<<97>>, <<50>>>>}
    /\ reply[1] = Response("false")
    /\ reply[2] = [value |-> <<50>>, status |-> "VALUE"]

\* C25: wal.clear (FLUSH) runs exclusively: in no reachable state is one
\* handler inside FLUSH (between the start of store.clear() and the end of
\* wal.clear()) while another is inside a PUT or DELETE (between its append
\* to the log and the end of its map mutation).
C25_FlushRunsAlone ==
    \A c \in Clients, d \in Clients :
        ~(pc[c] \in Flushing /\ pc[d] \in Writing)

\* C26: if wal.clear() fails during FLUSH the client is answered with an
\* error, not OK; FLUSH answers OK only when the log has been emptied.
C26_FailedClearIsReported ==
    [][\A c \in Clients :
        /\ FlushWalFails(c) => reply'[c] # Response("OK")
        /\ (pc[c] = "wal_clear" /\ pc'[c] = "idle" /\ reply'[c] = Response("OK")) =>
                LogOf(file', wal') = <<>>]_vars

\* key k is absent from the map
Absent(k) == ~MapFind(Store(buckets, item_count), k)[1]

\* C27: a DELETE of a key that is absent from the map still appends exactly
\* one DELETE record to the log and consumes one sequence number, answers
\* NOT_FOUND, and leaves the map and its size unchanged; replaying the record
\* (erase of a key that is absent) changes nothing.
C27_DeleteOfAbsentKeyIsLogged ==
    [][/\ \A c \in Clients, k \in Keys, ts \in Timestamps :
            (DelWal(c, k, ts) /\ Absent(k) /\ pc'[c] = "del_erase") =>
                /\ LogOf(file', wal') =
                        Log \o Encode(wal.sequence_number, ts, OpDELETE, k, <<>>)
                /\ wal'.sequence_number = U64Inc(wal.sequence_number)
       /\ \A c \in Clients :
            (DelErase(c) /\ Absent(key[c])) =>
                /\ reply'[c] = Response("NOT_FOUND")
                /\ buckets' = buckets /\ item_count' = item_count
                /\ MapErase(Store(buckets, item_count), key[c]).store =
                        Store(buckets, item_count)]_vars

\* C28: the server takes no client command before recovery replay has
\* completed: while the constructor runs, no handler thread exists, no command
\* starts and the server is not running; and when the constructor returns,
\* the map is the one the callbacks of the whole replay build from an empty map.
C28_NoCommandBeforeReplayEnds ==
    [][/\ (~alive \/ todo[Main] # <<>>) =>
            /\ ops' = ops
            /\ ~running'
            /\ \A c \in Clients : todo'[c] = <<>>
       /\ (MainReturn /\ alive') =>
            Store(buckets', item_count') =
                ApplyCalls(Store(EmptyBuckets, Zeros(WordSize)),
                           replay(wal, file, ValueOf(Cur(Main))).calls, 1)]_vars

\* C28, its case: after a restart whose replay rebuilt a map that is not
\* empty, a handler thread is processing a command
C28_Witness ==
    /\ alive /\ restarts > 0
    /\ buckets # EmptyBuckets
    /\ SeqsFrom(file, 1) # <<>>
    /\ \E c \in Clients : todo[c] # <<>>

\* the responses that turn a command away for the size of its key or value
SizeErrors == {Response("ERROR Key too large"), Response("ERROR Value too large")}

\* the outcome r left the map and the log as they are in this state
NoChange(r) == r.store = Store(buckets, item_count) /\ r.wal = wal /\ r.file = file

\* the outcomes of the line s in this state, one for each library and clock
Outcomes(s) == {Processed(s, sentry, ts) : sentry \in BOOLEAN, ts \in Timestamps}

\* C29: whenever a handler can take a line, a PUT, GET or DELETE sent by the
\* client library whose key is longer than max_key_size, or whose value is
\* longer than max_value_size, is answered with a size error and leaves the
\* map, the log file, the stream and the sequence number as they were; one
\* with a key of 1..max_key_size bytes and a value of 0..max_value_size bytes
\* is not answered with a size error: a PUT takes a sequence number, and if it
\* answers OK the map holds the value under the key
C29_SizeBoundsEnforced ==
    CanProcess =>
        \A k \in CmdKeys :
            /\ \A v \in CmdValues : \A r \in Outcomes(PutLine(k, v)) :
                  IF Len(k) > max_key_size \/ Len(v) > max_value_size
                  THEN r.reply \in SizeErrors /\ NoChange(r)
                  ELSE Len(k) >= 1 =>
                        /\ r.reply \notin SizeErrors
                        /\ r.wal.sequence_number = U64Inc(wal.sequence_number)
                        /\ r.reply = Response("OK") => MapFind(r.store, k) = <<TRUE, v>>
            /\ \A r \in Outcomes(GetLine_(k)) \cup Outcomes(DeleteLine(k)) :
                  IF Len(k) > max_key_size
                  THEN r.reply \in SizeErrors /\ NoChange(r)
                  ELSE Len(k) >= 1 => r.reply \notin SizeErrors

\* a key of three bytes was turned away after a PUT of a key of max_key_size
\* bytes and a value of max_value_size bytes was answered OK and stored
C29_Witness ==
    /\ reply[1] = Response("ERROR Key too large")
    /\ reply[2] = Response("OK")
    /\ MapFind(Store(buckets, item_count), Rep(97, max_key_size))
            = <<TRUE, Rep(49, max_value_size)>>
    /\ wal.sequence_number = U64Of(1)

\* the responses that turn a command away before it is carried out
Refusals ==
    SizeErrors \cup {Response("ERROR Invalid command format"),
                     Response("ERROR Unknown command")}

\* C30: whenever a handler can take a line, a PUT or DELETE with the empty
\* key is turned away with an error of validation and the log and the
\* sequence number stay as they were; and the map never holds an item whose
\* key is empty
C30_EmptyKeyRejected ==
    /\ CanProcess =>
          \A r \in Outcomes(DeleteLine(<<>>))
                    \cup UNION {Outcomes(PutLine(<<>>, v)) : v \in CmdValues} :
              r.reply \in Refusals /\ r.wal = wal /\ r.file = file
    /\ \A b \in BucketIds : \A i \in 1..Len(buckets[b]) : buckets[b][i][1] # <<>>

\* the bytes the outcome r added to the log of this state
Appended(r) == SubSeq(LogOf(r.file, r.wal), Len(Log) + 1, Len(LogOf(r.file, r.wal)))

\* the fields of the record that starts the bytes b, as replay reads them
Fields(b) == ReadEntry(b, 1, Zeroed)

\* C31: the record a PUT appends to the log carries the op byte 0, the record
\* a DELETE appends carries the op byte 1 and a value length of 0
C31_OpByteOfRecord ==
    CanProcess =>
        \A k \in CmdKeys :
            /\ \A v \in CmdValues : \A r \in Outcomes(PutLine(k, v)) :
                  Appended(r) # <<>> => Fields(Appended(r)).op_val = <<0>>
            /\ \A r \in Outcomes(DeleteLine(k)) :
                  Appended(r) # <<>> =>
                      /\ Fields(Appended(r)).op_val = <<1>>
                      /\ Fields(Appended(r)).value_size = Zeros(WordSize)

\* sizeof(seq) + sizeof(timestamp) + sizeof(op_val) + sizeof(key_size)
\* + sizeof(value_size)
FrameSize == WordSize + WordSize + 1 + WordSize + WordSize

RECURSIVE FramesFrom(_, _)
\* the bytes the records of f from position pos on take by the lengths they
\* declare, one number a record, while they are there in full
FrameOf(f, e) ==
    IF ~e.cur.good THEN <<>>
    ELSE <<FrameSize + Len(e.key) + Len(e.value)>> \o FramesFrom(f, e.cur.pos)

FramesFrom(f, pos) ==
    IF pos > Len(f) THEN <<>> ELSE FrameOf(f, ReadEntry(f, pos, Zeroed))

RECURSIVE SumOf(_, _)
SumOf(s, i) == IF i > Len(s) THEN 0 ELSE s[i] + SumOf(s, i + 1)

\* in this step thread c's writeEntry(op, k, v) returned true and the log is
\* longer by n bytes
AppendedBytes(n) ==
    \A c \in Clients, op \in WalOps, k \in WalKeys, v \in WalValues, ts \in Timestamps :
        (WalWrite(c, op, k, v, ts) /\ reply'[c] = Response("true")) =>
            Len(LogOf(file', wal')) = Len(Log) + n + Len(k) + Len(v)

\* in this step size() returned the sum of what the records of the log take
\* with a frame of n bytes and their declared key and value lengths
SizeIsSum(n) ==
    \A c \in Clients :
        WalSize(c) =>
            reply'[c].value
                = U64Of(SumOf(FramesFrom(Log, 1), 1)
                            + (n - FrameSize) * Len(FramesFrom(Log, 1)))

\* C32 as amended: every record appended to the log takes exactly
\* 33 + key_len + value_len bytes, and size() on a log opened empty returns
\* the sum of that over its records
C32_RecordIs33PlusKeyPlusValue == [][AppendedBytes(33) /\ SizeIsSum(33)]_vars

\* size() has returned 77 after two appends of a key of one byte, one with a
\* value of one byte and one with a value of eight
C32_Witness ==
    /\ alive
    /\ FramesFrom(Log, 1) = <<35, 42>> \/ FramesFrom(Log, 1) = <<42, 35>>
    /\ \E c \in Clients : reply[c] = [value |-> U64Of(77), status |-> "SIZE"]

\* C32: every record appended to the log takes exactly 34 + key_len +
\* value_len bytes, and size() returns the sum of that over the records
C32_RecordIs34PlusKeyPlusValue == [][AppendedBytes(34) /\ SizeIsSum(34)]_vars

\* thread c has just called for_each: nothing is locked or visited yet
Starts(c) == todo[c] = ForEachCalls /\ reply[c] = [value |-> <<>>, status |-> "VISITED"]

\* thread c's for_each has returned
Traversed(c) == todo[c] = <<>> /\ reply[c].status = "VISITED"

\* the entry e is in the map
Present(e) == e \in Contents(buckets)

\* how many times the visitor was shown e
Times(e, s) == Cardinality({i \in 1..Len(s) : s[i] = e})

\* the step that ends a for_each of thread c
Returns(c) == todo[c] # <<>> /\ Traversed(c)'

\* C33: an entry that is in the map when a for_each starts and stays in it is
\* shown to the visitor exactly once by the time the for_each returns,
\* whatever other threads insert and erase meanwhile; and a for_each that
\* returns in a behaviour in which no two commands have overlapped has shown
\* the visitor exactly the entries of the map, size() of them, no key twice
C33_ForEachVisitsOnce ==
    /\ \A c \in Clients : \A e \in Keys \X LockValues :
          []((Starts(c) /\ Present(e)) =>
                ([]Present(e) => [](Traversed(c) => Times(e, reply[c].value) = 1)))
    /\ [][\A c \in Clients :
            (Returns(c) /\ ~overlapped') =>
                /\ {reply'[c].value[i] : i \in 1..Len(reply'[c].value)} = Contents(buckets')
                /\ U64Of(Len(reply'[c].value)) = item_count'
                /\ \A i, j \in 1..Len(reply'[c].value) :
                      reply'[c].value[i][1] = reply'[c].value[j][1] => i = j]_vars

\* a for_each has returned having shown an entry that was there all along,
\* while another thread was inside a PUT of another key
C33_Witness ==
    \E c \in Clients, d \in Clients :
        /\ Traversed(c) /\ overlapped
        /\ Len(reply[c].value) = 1
        /\ Present(reply[c].value[1])
        /\ todo[d] # <<>> /\ OpOf(Cur(d)) \in {"emplace", "fetch_add", "unlock"}
        /\ KeyOf(todo[d][Len(todo[d])]) # reply[c].value[1][1]

RECURSIVE SumSizes(_, _)
\* the sum of the sizes of the buckets from b on
SumSizes(sizes, b) == IF b = NumBuckets THEN 0 ELSE sizes[b] + SumSizes(sizes, b + 1)

\* what the statistics st say of a map that holds the keys ks in the buckets bs
StatsAgree(st, ks, bs) ==
    /\ st.item_count = U64Of(Cardinality(ks))
    /\ st.item_count = U64Of(SumSizes(st.bucket_sizes, 0))
    /\ st.bucket_count = NumBuckets
    /\ st.used_buckets = Cardinality({b \in BucketIds : bs[b] # <<>>})
    /\ st.used_buckets <= st.bucket_count

\* C34: when no command is in progress, the statistics of the map report as
\* items the number of keys present, which is the sum of the bucket sizes, as
\* buckets their number N, and as used buckets the number of buckets that are
\* not empty, never more than N
C34_StatsOfQuiescentMap ==
    (alive /\ \A c \in Clients : todo[c] = <<>>) =>
        StatsAgree(getStatistics(Store(buckets, item_count)), KeysPresent, buckets)

\* thread c's last command was answered "ERROR WAL write failed"
WriteFailed(c) == reply[c] = Response(WalError)

\* C35: the error of a failed write does not stick: a PUT or DELETE that a
\* thread sends after its write was answered with a WAL error (the file can
\* be written: nothing in these behaviours takes it away) is appended to the
\* log and goes on to update the map and answer OK
C35_WalErrorIsNotSticky ==
    [][\A c \in Clients, k \in Keys, ts \in Timestamps :
        /\ \A v \in Values :
              (WriteFailed(c) /\ PutWal(c, k, v, ts)) =>
                  /\ pc'[c] = "put_insert"
                  /\ Len(LogOf(file', wal')) > Len(Log)
        /\ (WriteFailed(c) /\ DelWal(c, k, ts)) =>
                  /\ pc'[c] = "del_erase"
                  /\ Len(LogOf(file', wal')) > Len(Log)]_vars

RECURSIVE RecordCalls(_, _)
\* on_put(key, value) for a PUT record and on_delete(key) for a DELETE record,
\* for the records i.. of recs in their order
RecordCalls(recs, i) ==
    IF i > Len(recs) THEN <<>>
    ELSE (IF recs[i].op = OpPUT
          THEN <<[f |-> "insert", key |-> recs[i].key, value |-> recs[i].value]>>
          ELSE IF recs[i].op = OpDELETE
          THEN <<[f |-> "erase", key |-> recs[i].key, value |-> <<>>]>>
          ELSE <<>>) \o RecordCalls(recs, i + 1)

\* replay by a log object newly opened on the file f, its locals holding g
ReplayOf(f, g) == replay(recoverSequenceNumber(ensureOpen(ClosedLog), f), f, g)

\* replay of f makes one callback for each complete record of f, in file
\* order, and the map they build is the left fold of those records
FoldsRecords(f) ==
    \A g \in Garbage : \E r \in {ReplayOf(f, g)} :
        /\ ~r.threw
        /\ r.calls = RecordCalls(CompleteRecords(f, 1), 1)
        /\ Contents(ApplyCalls(Store(EmptyBuckets, Zeros(WordSize)), r.calls, 1).buckets)
                = Implied(CompleteRecords(f, 1), 1, {})

\* C36: replay of the log file, whatever state a process has left it in,
\* calls on_put(key, value) for each complete PUT record and on_delete(key)
\* for each complete DELETE record, once each and in file order, and nothing
\* else; the map rebuilt is the left fold of the records
C36_ReplayIsLeftFold == FoldsRecords(file)

\* the state clear() leaves when it returns true: an empty file, a stream
\* newly opened on it, the counter at 0
Cleared == alive /\ file = <<>> /\ wal = ensureOpen(ClosedLog)

\* C37: when clear() has returned true the file is empty, size() gives 0, the
\* next sequence number is 0 and replay finds no record; an append that comes
\* next returns true, makes the log non-empty, and its record, the only one
\* replay then finds, carries the sequence number 0
C37_ClearStartsAfresh ==
    [][/\ WalClear =>
            /\ Cleared'
            /\ file' = <<>>
            /\ size(wal', file').ret = Zeros(WordSize)
            /\ \A g \in Garbage : ReplayOf(file', g).calls = <<>>
       /\ \A c \in Clients, op \in WalOps, k \in WalKeys, v \in WalValues, ts \in Timestamps :
            (Cleared /\ WalWrite(c, op, k, v, ts)) =>
                /\ reply'[c] = Response("true")
                /\ LogOf(file', wal') = Encode(Zeros(WordSize), ts, op, k, v)
                /\ size(wal', file').ret # Zeros(WordSize)
                /\ SeqsFrom(LogOf(file', wal'), 1) = <<Zeros(WordSize)>>]_vars

\* two appends have returned true in a process that opened the log itself,
\* and the log holds one record, numbered 0: a clear() came between them
C37_Witness ==
    /\ alive /\ restarts = 0 /\ boot = "none" /\ ops = 2
    /\ \A c \in Clients : reply[c] = Response("true")
    /\ SeqsFrom(Log, 1) = <<Zeros(WordSize)>>
    /\ Len(Log) = FrameSize + 2

\* C38: in every reachable state, whatever the interleaving of insert, erase
\* and clear, every item of a bucket has a key whose hash modulo the number of
\* buckets is that bucket, and no two items of a bucket have the same key: a
\* key occurs at most once in the map, and always in the same bucket
C38_KeyInItsShardOnce ==
    \A b \in BucketIds : \A i \in 1..Len(buckets[b]) :
        /\ getBucket(buckets[b][i][1]) = b
        /\ \A j \in 1..Len(buckets[b]) : buckets[b][i][1] = buckets[b][j][1] => i = j

\* the map holds two keys while a FLUSH has overlapped a PUT or DELETE
C38_Witness ==
    /\ flushes = "raced"
    /\ Cardinality(KeysPresent) = 2
    /\ \E c \in Clients : todo[c] # <<>>

\* the lines of the commands that only read: GET and EXISTS of a key, SIZE
\* and STATS with nothing after them and with a return before the newline
ReadLines ==
    {GetLine_(k) : k \in CmdKeys}
        \cup {StrEXISTS \o <<32>> \o Quoted(k) : k \in CmdKeys}
        \cup {StrSIZE, StrSIZE \o <<13>>, StrSTATS, StrSTATS \o <<13>>}

\* the commands that write
Writers == {StrPUT, StrDELETE, StrFLUSH}

\* C39: whenever a handler can take a line, a GET, EXISTS, SIZE or STATS
\* leaves the items of the map, its counter, the log file, the stream and the
\* next sequence number as they were, whatever it answers; and a line that
\* changes any of them is a PUT, a DELETE or a FLUSH
C39_ReadsChangeNothing ==
    CanProcess =>
        /\ \A s \in ReadLines : \A r \in Outcomes(s) : NoChange(r)
        /\ \A s \in Lines \cup ReadLines : \A sentry \in BOOLEAN :
              (\E ts \in Timestamps : ~NoChange(Processed(s, sentry, ts)))
                  => Parse(s, sentry).op_str \in Writers

\* a GET was answered with the value of its key from a map and a log that
\* hold an item and a record
C39_Witness ==
    /\ \E c \in Clients : reply[c].status = "VALUE"
    /\ buckets # EmptyBuckets
    /\ Log # <<>>
    /\ wal.sequence_number = U64Of(1)

\* the log object as its constructor leaves it on the file f, before replay
Opened(f) == recoverSequenceNumber(ensureOpen(ClosedLog), f)

\* replay of f leaves the bytes of f as they are and does not lower the
\* sequence number
ReadOnly(f) ==
    \A g \in Garbage : \E r \in {ReplayOf(f, g)} :
        /\ r.file = f
        /\ U64Geq(r.wal.sequence_number, Opened(f).sequence_number)

\* two recoveries of f end the same way and build the same map
Deterministic(f) ==
    \A g1, g2 \in Garbage :
        /\ recoverFromWAL(f, g1).threw = recoverFromWAL(f, g2).threw
        /\ recoverFromWAL(f, g1).store = recoverFromWAL(f, g2).store

\* C40: replay of the log file, whatever state a process has left it in,
\* leaves the bytes of the file unchanged and does not lower the next
\* sequence number, and two replays of the file onto two empty maps build
\* identical maps
C40_ReplayReadOnlyDeterministic == ReadOnly(file) /\ Deterministic(file)

====
